---- MODULE Spec2Model ----
(***************************************************************************)
(* The delegated-LLM interaction manager of the Task Master MCP server:    *)
(* the tool wrapper of TaskMasterMCPServer (mcp-server/src/index.js), the  *)
(* agent_llm broker tool, and the registry of pending interactions.        *)
(***************************************************************************)
EXTENDS Integers, Sequences, FiniteSets, TLC

VARIABLES
    initialized,                  \* this.initialized
    registeredTools,              \* this.registeredTools (names of the tools in the Map)
    pendingAgentLLMInteractions,  \* this.pendingAgentLLMInteractions: interactionId -> record
    promises,                     \* promises[k]: the calls made to the k-th record's resolve/reject pair
    dispatches,                   \* dispatches[k]: the k-th background agentLLMTool.execute(...) call
    postProcessors,               \* the savers started by the agent-callback branch
    returning,                    \* the value a wrapped invocation is returning to the Tool Channel
    callerReceived,               \* callerReceived[k]: what the call that made the k-th record returns to its caller
    tasksJson,                    \* the contents of .taskmaster/tasks/tasks.json
    saveResult,                   \* what the last saver run returned
    saverRuns,                    \* the number of saver runs made
    saverCall,                    \* the last saver run: which saver, on which id, appending or not
    unitCall,                     \* the function called on its own (as the unit tests call it), with its arguments
    unitResult,                   \* what that call returned
    running                       \* running[p]: the p-th saver call of savers that run side by side

vars == <<initialized, registeredTools, pendingAgentLLMInteractions, promises,
          dispatches, postProcessors, returning, callerReceived, tasksJson, saveResult,
          saverRuns, saverCall, unitCall, unitResult, running>>

\* The state of the server, and the state the savers work on
serverVars == <<initialized, registeredTools, pendingAgentLLMInteractions, promises,
                dispatches, postProcessors, returning, callerReceived>>
storeVars == <<tasksJson, saveResult, saverRuns, saverCall>>
\* What the functions called outside the server work on
unitVars == <<unitCall, unitResult, running>>

----------------------------------------------------------------------------
(* Bounds of the model *)

MaxIds == 2            \* interaction ids 1..MaxIds
MaxInteractions == 2   \* delegations registered in one run
MaxSaverRuns == 2      \* saver runs on one task store

Ids == 1..MaxIds

----------------------------------------------------------------------------
(* JavaScript values *)

Undefined == [t |-> "undefined", v |-> ""]
Str(s) == [t |-> "string", v |-> s]
Obj(s) == [t |-> "object", v |-> s]

\* JavaScript truthiness of a payload value
Truthy(x) == ~(x = Undefined \/ x = Str(""))

\* `!interactionId`: the id is undefined or empty (written 0)
MissingId(i) == i = 0

HasField(r, f) == f \in DOMAIN r

(* Map operations *)
MapSet(m, k, val) == [x \in (DOMAIN m) \cup {k} |-> IF x = k THEN val ELSE m[x]]
MapDelete(m, k) == [x \in (DOMAIN m) \ {k} |-> m[x]]
MapHas(m, k) == k \in DOMAIN m

----------------------------------------------------------------------------
(* The tools and their callers *)

BrokerTool == "agent_llm"

\* The tools named by the wrapper's post-processing chain, the broker tool,
\* and one tool that never delegates.
ToolNames == {"parse_prd", "expand_task", "analyze_project_complexity", "update_task",
              "add_task", "update_subtask", "update", "research", "get_tasks", BrokerTool}

NoTagInfo == Undefined
DefaultTagInfo == [currentTag |-> "master", availableTags |-> {"master"}]
FeatureTagInfo == [currentTag |-> "feature", availableTags |-> {"master", "feature"}]

\* delegatedCallDetails of a pendingInteraction, as the command cores build them
ParsePrdCall ==
    [originalCommand |-> "parse-prd", role |-> "main", serviceType |-> "generateObject",
     requestParameters |-> [modelId |-> "m", tagInfo |-> NoTagInfo]]
UpdateTasksCall ==
    [originalCommand |-> "update-tasks", role |-> "research", serviceType |-> "generateText",
     requestParameters |-> [modelId |-> "m", tagInfo |-> FeatureTagInfo]]

\* (toolName, toolArgs, session) of the calls the Tool Channel makes to the
\* tools other than agent_llm, with the delegatedCallDetails the tool's command
\* core builds when it delegates (Undefined: the tool never delegates)
Callers ==
    { [toolName |-> "parse_prd",
       toolArgs |-> [projectRoot |-> "/p", id |-> ""],
       session  |-> [roots |-> <<>>],
       delegates |-> ParsePrdCall],
      [toolName |-> "update",
       toolArgs |-> [projectRoot |-> "", id |-> "5"],
       session  |-> [roots |-> <<[uri |-> "/s"]>>],
       delegates |-> UpdateTasksCall],
      [toolName |-> "get_tasks",
       toolArgs |-> [projectRoot |-> "", id |-> ""],
       session  |-> [roots |-> <<>>],
       delegates |-> Undefined] }

\* toolArgs.projectRoot || session?.roots?.[0]?.uri   ("" when neither is set)
ProjectRootOf(toolArgs, session) ==
    IF toolArgs.projectRoot # "" THEN toolArgs.projectRoot
    ELSE IF Len(session.roots) > 0 THEN session.roots[1].uri
    ELSE ""

\* toolArgs.projectRoot || session?.roots?.[0]?.uri || '.'
ProjectRootOrDot(toolArgs, session) ==
    IF ProjectRootOf(toolArgs, session) # "" THEN ProjectRootOf(toolArgs, session) ELSE "."

----------------------------------------------------------------------------
(* Tool results *)

\* createErrorResponse(message): an error result; it has no `status` field.
createErrorResponse(message, about) ==
    [content |-> <<[type |-> "text", text |-> [message |-> message, about |-> about]]>>,
     isError |-> TRUE]

\* A uri is the sequence of its parts
PendingInteractionUri == <<"agent-llm://", "pending-interaction">>

\* resource.text is a string: it either parses as JSON to a value or does not
JsonText(value) == [parses |-> TRUE, value |-> value]
BadJsonText == [parses |-> FALSE, value |-> Undefined]

EmbeddedResource(uri, text) ==
    [content |-> <<[type |-> "resource",
                    resource |-> [uri |-> uri, mimeType |-> "application/json", text |-> text]]>>,
     isError |-> FALSE]

\* The interaction ids that have been registered so far
KnownIds == { dispatches[k].args.interactionId : k \in DOMAIN dispatches }

\* The ids a pendingInteraction may carry.  Interaction ids are opaque (uuidv4
\* values), so the ids are numbered in the order in which they first appear: a
\* signal carries no id (0), an id seen before, or the next new one.
SignalIds == {0} \cup { i \in Ids : i \in KnownIds \/ i - 1 \in KnownIds \cup {0} }

\* pendingInteraction objects a tool may carry: those of its command core, with
\* or without an interactionId, one of parse-prd without delegatedCallDetails,
\* and one of another type
PendingInteractions(delegatedCallDetails) ==
    { [type |-> "agent_llm", interactionId |-> i, delegatedCallDetails |-> d] :
        i \in SignalIds, d \in {delegatedCallDetails} }
    \cup { [type |-> "agent_llm", interactionId |-> i, delegatedCallDetails |-> Undefined] :
             i \in IF delegatedCallDetails = ParsePrdCall THEN SignalIds \ {0} ELSE {} }
    \cup { [type |-> "other", interactionId |-> 1, delegatedCallDetails |-> delegatedCallDetails] }

\* Shape (b) of the delegation signal, as the tools build it
PendingInteractionResource(pi) ==
    EmbeddedResource(PendingInteractionUri,
                     JsonText([isAgentLLMPendingInteraction |-> TRUE, details |-> pi]))

\* Shape (a) of the delegation signal, as the command cores return it
PendingInteractionObject(pi) == [needsAgentDelegation |-> TRUE, pendingInteraction |-> pi]

\* The result of a tool that did its work
TextResult ==
    [content |-> <<[type |-> "text", text |-> [message |-> "ok", about |-> ""]]>>,
     isError |-> FALSE]

\* What a wrapped tool other than agent_llm can return without delegating
PlainResults ==
    { TextResult,
      Undefined,
      EmbeddedResource(<<"task://", "1">>, JsonText(Undefined)),
      EmbeddedResource(PendingInteractionUri, BadJsonText),
      EmbeddedResource(PendingInteractionUri,
                       JsonText([isAgentLLMPendingInteraction |-> FALSE,
                                 details |-> Undefined])),
      EmbeddedResource(PendingInteractionUri,
                       JsonText([isAgentLLMPendingInteraction |-> TRUE,
                                 details |-> Undefined])) }

\* What the tool of a caller can return
ToolResults(caller) ==
    IF caller.delegates = Undefined THEN PlainResults
    ELSE {TextResult}
         \cup { PendingInteractionResource(pi) : pi \in PendingInteractions(caller.delegates) }
         \cup { PendingInteractionObject([type |-> "agent_llm", interactionId |-> 1,
                                          delegatedCallDetails |-> caller.delegates]) }

----------------------------------------------------------------------------
(* The agent_llm broker tool *)

\* uuidv4(): an id no caller supplied
uuidv4 == MaxIds + 1

\* agentLLMResponse, with its data and errorDetails (z.any().optional()).
\* Completion envelopes: a success with and without data, an error with only a
\* textual or a structured payload, an error with errorDetails, and a success
\* that carries errorDetails as well
AgentLLMResponses ==
    { [status |-> "success", data |-> d, errorDetails |-> Undefined] :
        d \in {Undefined, Obj("tasks")} }
    \cup { [status |-> "error", data |-> d, errorDetails |-> Undefined] :
             d \in {Str("extra context"), Obj("tasks")} }
    \cup { [status |-> s, data |-> Undefined, errorDetails |-> Obj("rate_limit_error")] :
             s \in {"success", "error"} }

\* The session of the agent's calls
AgentSession == [roots |-> <<>>]

\* The arguments with which agent_llm may be called (agentLLMParameters): a
\* response to an interaction id, and, with or without an id, a request form,
\* both forms at once, neither form, and a response
AgentLLMArgs ==
    { [interactionId |-> i, delegatedCallDetails |-> Undefined, agentLLMResponse |-> r,
       projectRoot |-> "/p"] :
        i \in Ids, r \in AgentLLMResponses }
    \cup { [interactionId |-> i, delegatedCallDetails |-> d, agentLLMResponse |-> r,
             projectRoot |-> "/p"] :
             i \in {0, 1},
             d \in {Undefined, ParsePrdCall},
             r \in {Undefined, [status |-> "success", data |-> Obj("tasks"),
                                errorDetails |-> Undefined]} }

\* Faulty variant: the agent form is answered without looking at interactionId
AgentLLMExecuteIdNotChecked(args) ==
    IF args.delegatedCallDetails # Undefined \/ args.agentLLMResponse = Undefined THEN
        createErrorResponse("Invalid parameters for agent_llm tool", "")
    ELSE [toolResponseSource |-> "agent_to_taskmaster",
          status |-> IF args.agentLLMResponse.status = "success"
                     THEN "llm_response_completed" ELSE "llm_response_error",
          finalLLMOutput |-> args.agentLLMResponse.data,
          error |-> args.agentLLMResponse.errorDetails,
          interactionId |-> args.interactionId]

\* Faulty variant: the host form always takes a generated id
AgentLLMExecuteFreshId(args) ==
    IF args.delegatedCallDetails # Undefined THEN
        [toolResponseSource |-> "taskmaster_to_agent",
         status |-> "pending_agent_llm_action",
         message |-> "Taskmaster requires an LLM call from the agent.",
         llmRequestForAgent |-> args.delegatedCallDetails.requestParameters,
         interactionId |-> uuidv4,
         pendingInteractionSignalToAgent |->
             [type |-> "agent_must_respond_via_agent_llm",
              interactionId |-> uuidv4,
              instructions |-> "invoke the 'agent_llm' tool with your response"]]
    ELSE createErrorResponse("Invalid parameters for agent_llm tool", "")

\* Faulty variant: the host form's result carries a finalLLMOutput as well
AgentLLMExecuteEchoesOutput(args) ==
    IF args.delegatedCallDetails # Undefined /\ ~MissingId(args.interactionId) THEN
        [toolResponseSource |-> "taskmaster_to_agent",
         status |-> "pending_agent_llm_action",
         finalLLMOutput |-> Undefined,
         error |-> Undefined,
         interactionId |-> args.interactionId]
    ELSE createErrorResponse("Invalid parameters for agent_llm tool", "")

\* Faulty variant: the agent form reports every response as completed
AgentLLMExecuteStatusDropped(args) ==
    IF args.delegatedCallDetails = Undefined /\ args.agentLLMResponse # Undefined
       /\ ~MissingId(args.interactionId)
    THEN [toolResponseSource |-> "agent_to_taskmaster",
          status |-> "llm_response_completed",
          finalLLMOutput |-> args.agentLLMResponse.data,
          error |-> args.agentLLMResponse.errorDetails,
          interactionId |-> args.interactionId]
    ELSE createErrorResponse("Invalid parameters for agent_llm tool", "")

\* execute of the agent_llm tool
AgentLLMExecute(args) ==
    IF args.delegatedCallDetails # Undefined THEN
        LET effectiveInteractionId ==
                IF MissingId(args.interactionId) THEN uuidv4 ELSE args.interactionId
        IN  [toolResponseSource |-> "taskmaster_to_agent",
             status |-> "pending_agent_llm_action",
             message |-> "Taskmaster requires an LLM call from the agent.",
             llmRequestForAgent |-> args.delegatedCallDetails.requestParameters,
             interactionId |-> effectiveInteractionId,
             pendingInteractionSignalToAgent |->
                 [type |-> "agent_must_respond_via_agent_llm",
                  interactionId |-> effectiveInteractionId,
                  instructions |-> "invoke the 'agent_llm' tool with your response"]]
    ELSE IF args.agentLLMResponse # Undefined THEN
        IF MissingId(args.interactionId)
        THEN createErrorResponse("agent_llm: Agent response is missing interactionId.", "")
        ELSE [toolResponseSource |-> "agent_to_taskmaster",
              status |-> IF args.agentLLMResponse.status = "success"
                         THEN "llm_response_completed" ELSE "llm_response_error",
              finalLLMOutput |-> args.agentLLMResponse.data,
              error |-> args.agentLLMResponse.errorDetails,
              interactionId |-> args.interactionId]
    ELSE createErrorResponse("Invalid parameters for agent_llm tool", "")

----------------------------------------------------------------------------
(* The task store: tasks.json as readJSON returns it and writeJSON writes it *)

\* readJSON returns null: the file is missing or is not valid JSON
NoTasksFile == [missing |-> TRUE]

\* No saver has returned yet
\* No function has been called on its own
NoUnitCall == [fn |-> "", args |-> Undefined]

\* No saver has run
NoId == [parent |-> 0, sub |-> 0]
NoCall == [saver |-> "", id |-> NoId, append |-> FALSE, nextSubtaskId |-> 0, numReturned |-> 0]
NoResult == [success |-> FALSE, error |-> "", updated |-> FALSE]

----------------------------------------------------------------------------
(* The tool wrapper: _getWrappedToolExecutor *)

\* The pendingInteraction object carried by a tool result, or Undefined (null)
DetectedPendingInteractionObj(toolResult) ==
    IF /\ HasField(toolResult, "content")
       /\ Len(toolResult.content) > 0
       /\ toolResult.content[1].type = "resource"
       /\ toolResult.content[1].resource.uri = PendingInteractionUri
    THEN LET text == toolResult.content[1].resource.text
         IN  IF text.parses
             THEN LET parsedText == text.value
                  IN  IF /\ parsedText # Undefined
                         /\ HasField(parsedText, "isAgentLLMPendingInteraction")
                         /\ parsedText.isAgentLLMPendingInteraction = TRUE
                         /\ parsedText.details # Undefined
                      THEN parsedText.details
                      ELSE Undefined
             ELSE Undefined   \* JSON.parse threw: logged
    ELSE Undefined

\* Faulty variant: the type of the details is not looked at
IsDelegationSignalOfAnyType(toolResult) ==
    DetectedPendingInteractionObj(toolResult) # Undefined

\* The condition of the delegation branch
IsDelegationSignal(toolResult) ==
    /\ DetectedPendingInteractionObj(toolResult) # Undefined
    /\ DetectedPendingInteractionObj(toolResult).type = "agent_llm"

\* The condition of the agent-callback branch
IsAgentCallback(toolName, toolResult) ==
    /\ toolName = BrokerTool
    /\ HasField(toolResult, "interactionId")
    /\ ~MissingId(toolResult.interactionId)
    /\ HasField(toolResult, "finalLLMOutput")

\* The record the delegation branch stores; `promise` names its resolve/reject pair
PendingData(toolName, toolArgs, session, delegatedCallDetails, promise) ==
    [originalToolName |-> toolName,
     originalToolArgs |-> toolArgs,
     session |-> session,
     promise |-> promise,
     timestamp |-> "Date.now()",   \* written here; no code reads it
     delegatedCallDetails |-> delegatedCallDetails]

\* Faulty variant: the record is not yet in the registry when the dispatch starts
StoreRecordLater(registry, interactionId, pendingData) == registry

\* Faulty variant: a record already stored under the id is kept
StoreRecordKeepsEarlier(registry, interactionId, pendingData) ==
    IF MapHas(registry, interactionId) THEN registry
    ELSE MapSet(registry, interactionId, pendingData)

\* this.pendingAgentLLMInteractions.set(interactionId, {...})
StoreRecord(registry, interactionId, pendingData) ==
    MapSet(registry, interactionId, pendingData)

\* Faulty variant: the record is left in the registry
DeleteRecordSkipped(registry, interactionId) == registry

\* Faulty variant: the registry is cleared
DeleteEveryRecord(registry, interactionId) == <<>>

\* this.pendingAgentLLMInteractions.delete(interactionId)
DeleteRecord(registry, interactionId) == MapDelete(registry, interactionId)

\* Faulty variant: the resolver is not called
SettleSkipped(proms, promise, fn, value) == proms

\* pendingData.resolve(value) / pendingData.reject(value)
Settle(proms, promise, fn, value) ==
    [proms EXCEPT ![promise] = Append(@, [fn |-> fn, value |-> value])]

Error(message) == [t |-> "error", v |-> message]

\* The call agentLLMTool.execute({interactionId, delegatedCallDetails, projectRoot}, {log, session}),
\* started with the registry as it is at that moment
StartDispatch(registry, interactionId, delegatedCallDetails, projectRoot, session) ==
    [args |-> [interactionId |-> interactionId,
               delegatedCallDetails |-> delegatedCallDetails,
               agentLLMResponse |-> Undefined,
               projectRoot |-> projectRoot],
     session |-> session,
     recordStored |-> MapHas(registry, interactionId),
     state |-> "inflight"]

\* No wrapped invocation is returning
Idle == [idle |-> TRUE]

\* return value;
Return(value) == returning' = value

\* Faulty variant: the wrapper returns the directive in place of the tool's result
DelegationReturnsDirective(toolResult) ==
    AgentLLMExecute([interactionId |-> DetectedPendingInteractionObj(toolResult).interactionId,
                     delegatedCallDetails |-> ParsePrdCall,
                     agentLLMResponse |-> Undefined,
                     projectRoot |-> "."])

\* `return toolResult;` of the delegation branch
DelegationReturn(toolResult) == toolResult

\* Faulty variant: `!interactionId` is not checked
InteractionIdNotChecked(interactionId) == FALSE

\* `!interactionId` of the delegation branch
NoInteractionId(interactionId) == MissingId(interactionId)

\* The delegation branch
DelegationBranch(toolName, toolArgs, session, toolResult) ==
    LET detected == DetectedPendingInteractionObj(toolResult)
        interactionId == detected.interactionId
        delegatedCallDetails == detected.delegatedCallDetails
    IN  IF NoInteractionId(interactionId) THEN
            /\ Return(createErrorResponse("Internal error: pendingInteraction missing interactionId for",
                                          toolName))
            /\ UNCHANGED <<pendingAgentLLMInteractions, promises, dispatches, callerReceived>>
        ELSE IF BrokerTool \notin registeredTools THEN
            /\ Return(createErrorResponse("Internal server error: 'agent_llm' tool not found, cannot delegate for",
                                          toolName))
            /\ UNCHANGED <<pendingAgentLLMInteractions, promises, dispatches, callerReceived>>
        ELSE
            /\ Len(promises) < MaxInteractions
            /\ LET promise == Len(promises) + 1
                   stored == StoreRecord(pendingAgentLLMInteractions, interactionId,
                                         PendingData(toolName, toolArgs, session,
                                                     delegatedCallDetails, promise))
               IN  /\ pendingAgentLLMInteractions' = stored
                   /\ promises' = Append(promises, <<>>)
                   /\ dispatches' = Append(dispatches,
                                           StartDispatch(stored, interactionId, delegatedCallDetails,
                                                         ProjectRootOrDot(toolArgs, session), session))
            /\ Return(DelegationReturn(toolResult))
            /\ callerReceived' = Append(callerReceived, <<DelegationReturn(toolResult)>>)

\* parseInt(id, 10) of the task ids the callers use; 0 stands for null / NaN
ParseInt(s) == IF s = "5" THEN 5 ELSE 0

\* typeof requestParameters[hint] === 'number'
IsNumberHint(requestParameters, hint) ==
    /\ requestParameters # Undefined
    /\ HasField(requestParameters, hint)

\* Faulty variant: the chain starts no saver
PostProcessorNone(pendingData, finalLLMOutput) == ""

\* Faulty variant: the chain does not look at the payload or the project root
PostProcessorForUnguarded(pendingData, finalLLMOutput) ==
    CASE pendingData.originalToolName = "parse_prd" -> "saveTasksFromAgentData"
      [] pendingData.originalToolName = "update" -> "saveMultipleTasksFromAgent"
      [] pendingData.originalToolName = "research" -> "handleAgentResearchResult"
      [] OTHER -> ""

\* The else-if chain of the agent-callback branch: the saver it starts for this
\* record and payload, or "" when it starts none
PostProcessorFor(pendingData, finalLLMOutput) ==
    LET name == pendingData.originalToolName
        originalToolArgs == pendingData.originalToolArgs
        projectRootForSaving == ProjectRootOf(originalToolArgs, pendingData.session)
        details == pendingData.delegatedCallDetails
        requestParameters == IF details # Undefined THEN details.requestParameters ELSE Undefined
        when(guard, saver) == IF guard THEN saver ELSE ""
    IN  IF ~Truthy(finalLLMOutput) THEN ""
        ELSE IF name = "parse_prd" THEN
            when(projectRootForSaving # "", "saveTasksFromAgentData")
        ELSE IF name = "expand_task" THEN
            when(/\ projectRootForSaving # ""
                 /\ ParseInt(originalToolArgs.id) # 0
                 /\ IsNumberHint(requestParameters, "nextSubtaskId")
                 /\ IsNumberHint(requestParameters, "numSubtasksForAgent"),
                 "saveExpandedTaskData")
        ELSE IF name = "analyze_project_complexity" THEN
            when(projectRootForSaving # "", "saveComplexityReportFromAgent")
        ELSE IF name = "update_task" THEN
            when(projectRootForSaving # "" /\ originalToolArgs.id # "", "saveUpdatedTaskFromAgent")
        ELSE IF name = "add_task" THEN
            when(projectRootForSaving # "" /\ requestParameters # Undefined, "saveNewTaskFromAgent")
        ELSE IF name = "update_subtask" THEN
            when(projectRootForSaving # "" /\ originalToolArgs.id # "", "saveSubtaskDetailsFromAgent")
        ELSE IF name = "update" \/ (details # Undefined /\ details.originalCommand = "update-tasks") THEN
            when(projectRootForSaving # "", "saveMultipleTasksFromAgent")
        ELSE IF name = "research" THEN
            when(projectRootForSaving # "", "handleAgentResearchResult")
        ELSE ""

\* The arguments with which the chain calls a saver (the logger left out)
SaverArgs(saver, pendingData, finalLLMOutput) ==
    LET originalToolArgs == pendingData.originalToolArgs
        projectRootForSaving == ProjectRootOf(originalToolArgs, pendingData.session)
        requestParameters == pendingData.delegatedCallDetails.requestParameters
    IN  IF saver = "saveTasksFromAgentData" \/ saver = "saveMultipleTasksFromAgent" THEN
            [agentOutput |-> finalLLMOutput, projectRoot |-> projectRootForSaving]
        ELSE IF saver = "saveExpandedTaskData" THEN
            [agentOutput |-> finalLLMOutput,
             parentTaskIdNum |-> ParseInt(originalToolArgs.id),
             projectRoot |-> projectRootForSaving,
             originalTaskDetails |-> [numSubtasks |-> requestParameters.numSubtasksForAgent,
                                      nextSubtaskId |-> requestParameters.nextSubtaskId]]
        ELSE IF saver = "saveUpdatedTaskFromAgent" \/ saver = "saveSubtaskDetailsFromAgent" THEN
            [agentOutput |-> finalLLMOutput,
             idToUpdate |-> originalToolArgs.id,
             projectRoot |-> projectRootForSaving,
             originalToolArgs |-> originalToolArgs]
        ELSE IF saver = "saveNewTaskFromAgent" THEN
            [agentOutput |-> finalLLMOutput,
             projectRoot |-> projectRootForSaving,
             originalToolArgs |-> originalToolArgs,
             delegatedRequestParams |-> requestParameters]
        ELSE IF saver = "handleAgentResearchResult" THEN
            [agentOutput |-> finalLLMOutput,
             originalToolArgs |-> originalToolArgs,
             projectRoot |-> projectRootForSaving,
             session |-> pendingData.session]
        ELSE \* saveComplexityReportFromAgent
            [agentOutput |-> finalLLMOutput,
             projectRoot |-> projectRootForSaving,
             originalToolArgs |-> originalToolArgs]

\* A saver started fire-and-forget; interactionId, promise and originalToolName
\* tell which record started it
StartPostProcessor(saver, interactionId, pendingData, finalLLMOutput) ==
    [saver |-> saver,
     interactionId |-> interactionId,
     promise |-> pendingData.promise,
     originalToolName |-> pendingData.originalToolName,
     args |-> SaverArgs(saver, pendingData, finalLLMOutput),
     state |-> "running"]

\* Faulty variant: the stored tagInfo is not recovered
RecoveredTagInfoDefault(pendingData) == DefaultTagInfo

\* tagInfo of the resolved value: the stored one, or the default
RecoveredTagInfo(pendingData) ==
    LET details == pendingData.delegatedCallDetails
    IN  IF /\ details # Undefined
           /\ HasField(details.requestParameters, "tagInfo")
           /\ details.requestParameters.tagInfo # Undefined
        THEN details.requestParameters.tagInfo
        ELSE DefaultTagInfo

ResolvedData(pendingData, finalLLMOutput) ==
    [mainResult |-> finalLLMOutput, telemetryData |-> Undefined,
     tagInfo |-> RecoveredTagInfo(pendingData)]

\* Faulty variant: what the agent reported is dropped
AgentErrorGeneric(error, finalLLMOutput) == Error("Agent LLM call failed")

\* error || (typeof finalLLMOutput === 'string' ? new Error(finalLLMOutput) : new Error('Agent LLM call failed'))
AgentError(error, finalLLMOutput) ==
    IF Truthy(error) THEN error
    ELSE IF finalLLMOutput.t = "string" THEN Error(finalLLMOutput.v)
    ELSE Error("Agent LLM call failed")

AgentAck(interactionId) ==
    [content |-> <<[type |-> "resource",
                    resource |-> [uri |-> <<"agent-llm://", ToString(interactionId), "/processed-ack">>,
                                  mimeType |-> "application/json",
                                  text |-> JsonText([status |-> "agent_response_processed_by_taskmaster",
                                                     interactionId |-> interactionId])]]>>,
     isError |-> FALSE]

UnknownInteraction(interactionId) ==
    createErrorResponse("Agent response for unknown/expired interaction ID:", ToString(interactionId))

\* Faulty variant: the agent's response is acknowledged without looking the record up
AgentCallbackAlwaysAcks(toolName, toolResult) ==
    /\ Return(AgentAck(toolResult.interactionId))
    /\ UNCHANGED <<pendingAgentLLMInteractions, promises, postProcessors>>

\* The agent-callback branch
AgentCallbackBranch(toolName, toolResult) ==
    LET interactionId == toolResult.interactionId
        finalLLMOutput == toolResult.finalLLMOutput
        error == toolResult.error
        agentLLMStatus == toolResult.status
    IN  IF MapHas(pendingAgentLLMInteractions, interactionId) THEN
            LET pendingData == pendingAgentLLMInteractions[interactionId]
                saver == PostProcessorFor(pendingData, finalLLMOutput)
            IN  /\ IF agentLLMStatus = "llm_response_error" \/ Truthy(error) THEN
                       /\ promises' = Settle(promises, pendingData.promise, "reject",
                                             AgentError(error, finalLLMOutput))
                       /\ UNCHANGED postProcessors
                   ELSE
                       /\ promises' = Settle(promises, pendingData.promise, "resolve",
                                             ResolvedData(pendingData, finalLLMOutput))
                       /\ postProcessors' =
                              IF saver # ""
                              THEN Append(postProcessors,
                                          StartPostProcessor(saver, interactionId, pendingData,
                                                             finalLLMOutput))
                              ELSE postProcessors
                /\ pendingAgentLLMInteractions' =
                       DeleteRecord(pendingAgentLLMInteractions, interactionId)
                /\ Return(AgentAck(interactionId))
        ELSE
            /\ Return(UnknownInteraction(interactionId))
            /\ UNCHANGED <<pendingAgentLLMInteractions, promises, postProcessors>>

\* One invocation of a wrapped tool whose original execute returned toolResult
WrappedExecute(toolName, toolArgs, session, toolResult) ==
    /\ initialized
    /\ returning = Idle
    /\ toolName \in registeredTools
    /\ IF IsDelegationSignal(toolResult) THEN
           /\ DelegationBranch(toolName, toolArgs, session, toolResult)
           /\ UNCHANGED postProcessors
       ELSE IF IsAgentCallback(toolName, toolResult) THEN
           /\ AgentCallbackBranch(toolName, toolResult)
           /\ UNCHANGED <<dispatches, callerReceived>>
       ELSE
           /\ Return(toolResult)
           /\ UNCHANGED <<pendingAgentLLMInteractions, promises, dispatches, postProcessors,
                          callerReceived>>
    /\ UNCHANGED <<initialized, registeredTools>>
    /\ UNCHANGED <<storeVars, unitVars>>

\* The Tool Channel invokes a tool other than agent_llm
InvokeTool(caller, toolResult) ==
    /\ caller.toolName # BrokerTool
    /\ WrappedExecute(caller.toolName, caller.toolArgs, caller.session, toolResult)

\* The agent invokes agent_llm
InvokeAgentLLM(args) ==
    WrappedExecute(BrokerTool, args, AgentSession, AgentLLMExecute(args))

\* The Tool Channel sends the returned value to the client.  A handler runs to
\* completion on the event loop: what follows its last await is one step, and
\* the other handlers run once it has returned.
Respond ==
    /\ returning # Idle
    /\ returning' = Idle
    /\ UNCHANGED <<initialized, registeredTools, pendingAgentLLMInteractions, promises,
                   dispatches, postProcessors, callerReceived>>
    /\ UNCHANGED <<storeVars, unitVars>>

\* The record is rejected and deleted by a handler of the dispatch, if it is still there
RejectAndDelete(interactionId, reason) ==
    IF MapHas(pendingAgentLLMInteractions, interactionId) THEN
        /\ promises' = Settle(promises, pendingAgentLLMInteractions[interactionId].promise,
                              "reject", Error(reason))
        /\ pendingAgentLLMInteractions' =
               DeleteRecord(pendingAgentLLMInteractions, interactionId)
    ELSE UNCHANGED <<pendingAgentLLMInteractions, promises>>

\* agentDirectiveResult && agentDirectiveResult.status && status !== 'pending_agent_llm_action'
IsFailedDirective(agentDirectiveResult) ==
    /\ HasField(agentDirectiveResult, "status")
    /\ agentDirectiveResult.status # "pending_agent_llm_action"

\* The nested wrapped call of agent_llm returns its tool result unchanged
NestedPassThrough(toolResult) ==
    /\ ~IsDelegationSignal(toolResult)
    /\ ~IsAgentCallback(BrokerTool, toolResult)

\* .then(agentDirectiveResult => ...) of the k-th dispatch
DispatchThen(k) ==
    /\ returning = Idle
    /\ k \in DOMAIN dispatches
    /\ dispatches[k].state = "inflight"
    /\ LET agentDirectiveResult == AgentLLMExecute(dispatches[k].args)
           interactionId == dispatches[k].args.interactionId
       IN  /\ NestedPassThrough(agentDirectiveResult)
           /\ IF IsFailedDirective(agentDirectiveResult)
              THEN RejectAndDelete(interactionId, "agent_llm tool failed during dispatch setup")
              ELSE UNCHANGED <<pendingAgentLLMInteractions, promises>>
    /\ dispatches' = [dispatches EXCEPT ![k].state = "fulfilled"]
    /\ UNCHANGED <<initialized, registeredTools, postProcessors, returning, callerReceived>>
    /\ UNCHANGED <<storeVars, unitVars>>

\* .catch(dispatchError => ...) of the k-th dispatch
DispatchCatch(k) ==
    /\ returning = Idle
    /\ k \in DOMAIN dispatches
    /\ dispatches[k].state = "inflight"
    /\ RejectAndDelete(dispatches[k].args.interactionId, "Failed to dispatch to agent_llm")
    /\ dispatches' = [dispatches EXCEPT ![k].state = "rejected"]
    /\ UNCHANGED <<initialized, registeredTools, postProcessors, returning, callerReceived>>
    /\ UNCHANGED <<storeVars, unitVars>>

\* saveResult.success, !saveResult.success, or the saver's promise rejects
SaverOutcomes == {"saved", "failed", "threw"}

\* Faulty variant: a saver that fails or throws is answered to the agent
PostProcessorFailureReachesAck(p, outcome) ==
    /\ returning = Idle
    /\ p \in DOMAIN postProcessors
    /\ postProcessors[p].state = "running"
    /\ outcome \in SaverOutcomes
    /\ postProcessors' = [postProcessors EXCEPT ![p].state = "settled"]
    /\ returning' = IF outcome = "saved" THEN returning
                    ELSE createErrorResponse("Post-processing failed for",
                                             ToString(postProcessors[p].interactionId))
    /\ UNCHANGED <<initialized, registeredTools, pendingAgentLLMInteractions, promises,
                   dispatches, callerReceived>>
    /\ UNCHANGED <<storeVars, unitVars>>

\* A saver's promise settles; the wrapper only logs the outcome
PostProcessorSettles(p, outcome) ==
    /\ returning = Idle
    /\ p \in DOMAIN postProcessors
    /\ postProcessors[p].state = "running"
    /\ outcome \in SaverOutcomes
    /\ postProcessors' = [postProcessors EXCEPT ![p].state = "settled"]
    /\ UNCHANGED <<initialized, registeredTools, pendingAgentLLMInteractions, promises,
                   dispatches, returning, callerReceived>>
    /\ UNCHANGED <<storeVars, unitVars>>

----------------------------------------------------------------------------
Init ==
    /\ initialized = FALSE
    /\ registeredTools = {}
    /\ pendingAgentLLMInteractions = <<>>
    /\ promises = <<>>
    /\ dispatches = <<>>
    /\ postProcessors = <<>>
    /\ returning = Idle
    /\ callerReceived = <<>>
    /\ tasksJson = NoTasksFile
    /\ saveResult = NoResult
    /\ saverRuns = 0
    /\ saverCall = NoCall
    /\ unitCall = NoUnitCall
    /\ unitResult = Undefined
    /\ running = <<>>

\* init(): registerTaskMasterTools registers its tools through customToolRegistrar.addTool
init(tools) ==
    /\ ~initialized
    /\ registeredTools' = tools
    /\ initialized' = TRUE
    /\ UNCHANGED <<pendingAgentLLMInteractions, promises, dispatches, postProcessors,
                   returning, callerReceived>>
    /\ UNCHANGED <<storeVars, unitVars>>

Next ==
    \/ \E tools \in {ToolNames, ToolNames \ {BrokerTool}} : init(tools)
    \/ \E caller \in Callers : \E toolResult \in ToolResults(caller) :
           InvokeTool(caller, toolResult)
    \/ \E args \in AgentLLMArgs : InvokeAgentLLM(args)
    \/ Respond
    \/ \E k \in 1..MaxInteractions : DispatchThen(k)
    \/ \E k \in 1..MaxInteractions : DispatchCatch(k)
    \/ \E p \in 1..MaxInteractions, outcome \in SaverOutcomes :
           PostProcessorSettles(p, outcome)

Spec == Init /\ [][Next]_vars

\* The handlers of a started dispatch and of a started saver run (they are
\* promise reactions of the event loop) and the Tool Channel sends what a
\* handler returns; nothing obliges a caller or the agent to call.
FairSpec ==
    /\ Init
    /\ [][Next]_vars
    /\ WF_vars(\E k \in 1..MaxInteractions : DispatchThen(k) \/ DispatchCatch(k))
    /\ WF_vars(\E p \in 1..MaxInteractions, outcome \in SaverOutcomes :
                   PostProcessorSettles(p, outcome))
    /\ WF_vars(Respond)

----------------------------------------------------------------------------
(* The post-processing chain on its own: one record awaits the agent *)

\* The commands that delegate: those the workflow document lists, and research
DelegatingCommands ==
    {"parse_prd", "analyze_project_complexity", "expand_task", "expand_all", "update",
     "update_task", "update_subtask", "add_task", "research"}

\* originalCommand (commandName) of a tool's command core
CommandName(toolName) ==
    CASE toolName = "parse_prd" -> "parse-prd"
      [] toolName = "update" -> "update-tasks"
      [] OTHER -> toolName

\* requestParameters of a directive: without and with the expand-task hints
ChainRequestParameters ==
    { [modelId |-> "m", tagInfo |-> FeatureTagInfo],
      [modelId |-> "m", tagInfo |-> FeatureTagInfo, nextSubtaskId |-> 1,
       numSubtasksForAgent |-> 3] }

\* Arguments of the delegating call: with and without an id, with and without
\* a project root
ChainToolArgs ==
    { [projectRoot |-> "/p", id |-> "5"],
      [projectRoot |-> "/p", id |-> ""],
      [projectRoot |-> "", id |-> "5"] }

\* The records the delegation branch stores for those calls, under promise 1
ChainRecords ==
    UNION { { PendingData(toolName, toolArgs, [roots |-> <<>>],
                          [originalCommand |-> CommandName(toolName), role |-> "main",
                           serviceType |-> "generateObject",
                           requestParameters |-> requestParameters],
                          1) :
                toolArgs \in ChainToolArgs, requestParameters \in ChainRequestParameters }
            : toolName \in DelegatingCommands }

\* The server after one delegation under interactionId 1 whose directive has
\* been dispatched
ChainInit ==
    /\ initialized = TRUE
    /\ registeredTools = ToolNames \cup DelegatingCommands
    /\ \E pendingData \in ChainRecords :
           LET stored == StoreRecord(<<>>, 1, pendingData)
           IN  /\ pendingAgentLLMInteractions = stored
               /\ dispatches =
                      <<[StartDispatch(stored, 1, pendingData.delegatedCallDetails,
                                       ProjectRootOrDot(pendingData.originalToolArgs,
                                                        pendingData.session),
                                       pendingData.session)
                         EXCEPT !.state = "fulfilled"]>>
               /\ callerReceived =
                      << <<PendingInteractionResource(
                               [type |-> "agent_llm", interactionId |-> 1,
                                delegatedCallDetails |-> pendingData.delegatedCallDetails])>> >>
    /\ promises = << <<>> >>
    /\ postProcessors = <<>>
    /\ returning = Idle
    /\ tasksJson = NoTasksFile
    /\ saveResult = NoResult
    /\ saverRuns = 0
    /\ saverCall = NoCall
    /\ unitCall = NoUnitCall
    /\ unitResult = Undefined
    /\ running = <<>>

ChainNext ==
    \/ \E args \in AgentLLMArgs : InvokeAgentLLM(args)
    \/ Respond
    \/ \E p \in 1..MaxInteractions, outcome \in SaverOutcomes :
           PostProcessorSettles(p, outcome)

ChainSpec == ChainInit /\ [][ChainNext]_vars

----------------------------------------------------------------------------
(* One delegation of any delegating command, from the moment its record is
   stored and its dispatch started: the dispatch may go through or fail, and
   the agent calls back *)

\* The server after one delegation under interactionId 1 whose dispatch is in flight
GuardInit ==
    /\ initialized = TRUE
    /\ registeredTools = ToolNames \cup DelegatingCommands
    /\ \E pendingData \in ChainRecords :
           LET stored == StoreRecord(<<>>, 1, pendingData)
           IN  /\ pendingAgentLLMInteractions = stored
               /\ dispatches =
                      <<StartDispatch(stored, 1, pendingData.delegatedCallDetails,
                                      ProjectRootOrDot(pendingData.originalToolArgs,
                                                       pendingData.session),
                                      pendingData.session)>>
               /\ callerReceived =
                      << <<PendingInteractionResource(
                               [type |-> "agent_llm", interactionId |-> 1,
                                delegatedCallDetails |-> pendingData.delegatedCallDetails])>> >>
    /\ promises = << <<>> >>
    /\ postProcessors = <<>>
    /\ returning = Idle
    /\ tasksJson = NoTasksFile
    /\ saveResult = NoResult
    /\ saverRuns = 0
    /\ saverCall = NoCall
    /\ unitCall = NoUnitCall
    /\ unitResult = Undefined
    /\ running = <<>>

GuardNext ==
    \/ \E args \in AgentLLMArgs : InvokeAgentLLM(args)
    \/ Respond
    \/ \E k \in 1..MaxInteractions : DispatchThen(k)
    \/ \E k \in 1..MaxInteractions : DispatchCatch(k)
    \/ \E p \in 1..MaxInteractions, outcome \in SaverOutcomes :
           PostProcessorSettles(p, outcome)

GuardSpec == GuardInit /\ [][GuardNext]_vars

----------------------------------------------------------------------------
(* The savers (post-processors), as functions of the task store *)

\* status === 'done' || status === 'completed'
IsCompleted(item) == item.status = "done" \/ item.status = "completed"

\* details (and description) are texts to which blocks are appended: a text is
\* the sequence of its parts
Text(s) == [kind |-> "text", text |-> s]
\* `<info added on ${timestamp}>\n${text}\n</info added on ${timestamp}>`
InfoBlock(s) == [kind |-> "info", text |-> s]
\* ` [Updated: ${new Date().toLocaleDateString()}]`
UpdatedMarker == [kind |-> "marker", text |-> "[Updated]"]

\* A subtask and a task as tasks.json holds them
Subtask(id, status) ==
    [id |-> id, title |-> "s", status |-> status, details |-> <<Text("sd")>>,
     description |-> <<Text("desc")>>]
Task(id, status, subtasks) ==
    [id |-> id, title |-> "t", status |-> status, details |-> <<Text("d")>>,
     subtasks |-> subtasks]
\* A task that has no subtasks property
TaskWithoutSubtasks(id, status) ==
    [id |-> id, title |-> "t", status |-> status, details |-> <<Text("d")>>]

\* !!task.subtasks
HasSubtasks(task) == HasField(task, "subtasks")

\* The index of the first element with this id, 0 when there is none (find / findIndex)
IndexOfId(seq, id) ==
    IF \E i \in DOMAIN seq : seq[i].id = id
    THEN CHOOSE i \in DOMAIN seq : seq[i].id = id /\ \A j \in 1..(i - 1) : seq[j].id # id
    ELSE 0

\* array.filter(x => x.id !== id)
WithoutId(seq, id) ==
    LET keep(x) == x.id # id IN SelectSeq(seq, keep)

\* The filter with the Set of seen ids: the first element of each id is kept
RECURSIVE DedupeById(_)
DedupeById(seq) ==
    IF seq = <<>> THEN <<>>
    ELSE <<Head(seq)>> \o DedupeById(WithoutId(Tail(seq), Head(seq).id))

\* array.sort((a, b) => a.id - b.id)   (a stable sort)
RECURSIVE SortById(_)
SortById(seq) ==
    IF seq = <<>> THEN <<>>
    ELSE LET first == Head(seq)
             rest == SortById(Tail(seq))
             before(x) == x.id < first.id
             notBefore(x) == ~(x.id < first.id)
         IN  SelectSeq(rest, before) \o <<first>> \o SelectSeq(rest, notBefore)

\* { ...a, ...b } and Object.assign(a, b): the properties of b override those of a
Spread(a, b) ==
    [f \in DOMAIN a \cup DOMAIN b |-> IF f \in DOMAIN b THEN b[f] ELSE a[f]]

\* What a saver returns
Failure(message) == [success |-> FALSE, error |-> message, updated |-> FALSE]
Success(updated) == [success |-> TRUE, error |-> "", updated |-> updated]

\* The outcome of a saver run: what tasks.json holds afterwards, and the result
Outcome(data, result) == [store |-> data, result |-> result]

\* writeJSON(tasksJsonPath, allTasksData); await generateTaskFiles(...); return success
\* (generateTaskFiles throws in MCP mode when it fails; the savers catch it)
WriteAndGenerate(data, generateOk) ==
    Outcome(data, IF generateOk THEN Success(TRUE) ELSE Failure("generateTaskFiles failed"))

\* The completed subtasks of the original task restored into the agent's list
\* (completedOriginalSubtasks.forEach ...), then deduplicated and sorted
RECURSIVE RestoreCompleted(_, _)
RestoreCompleted(finalSubtasks, completedOriginalSubtasks) ==
    IF completedOriginalSubtasks = <<>> THEN finalSubtasks
    ELSE LET compSub == Head(completedOriginalSubtasks)
             at == IndexOfId(finalSubtasks, compSub.id)
             restored == IF at = 0 \/ finalSubtasks[at] # compSub
                         THEN Append(WithoutId(finalSubtasks, compSub.id), compSub)
                         ELSE finalSubtasks
         IN  RestoreCompleted(restored, Tail(completedOriginalSubtasks))

\* finalSubtasks of a full update of originalTask by agentTask
FinalSubtasks(originalTask, agentTask) ==
    LET agentSubtasks == IF HasField(agentTask, "subtasks") THEN agentTask.subtasks ELSE <<>>
    IN  IF HasSubtasks(originalTask) /\ Len(originalTask.subtasks) > 0
        THEN SortById(DedupeById(RestoreCompleted(agentSubtasks,
                                                  SelectSeq(originalTask.subtasks, IsCompleted))))
        ELSE agentSubtasks

\* saveUpdatedTaskFromAgent(agentOutput, taskIdToUpdate, projectRoot, log, originalToolArgs)
\* taskIdToUpdate "p.s" is [parent |-> p, sub |-> s], and "p" is [parent |-> p, sub |-> 0]
saveUpdatedTaskFromAgent(data, agentOutput, taskIdToUpdate, originalToolArgs, generateOk) ==
    LET isSubtaskId == taskIdToUpdate.sub # 0
        thrown(message) == Outcome(data, Failure(message))
    IN  IF ~HasField(data, "tasks") THEN
            Outcome(data, Failure("Invalid or missing tasks data"))
        ELSE LET
            tasks == data.tasks
            parentIndex == IndexOfId(tasks, taskIdToUpdate.parent)
        IN  IF isSubtaskId /\ (parentIndex = 0 \/ ~HasSubtasks(tasks[parentIndex])) THEN
                thrown("Parent task or subtasks not found")
            ELSE LET
                subIndex == IF isSubtaskId
                            THEN IndexOfId(tasks[parentIndex].subtasks, taskIdToUpdate.sub)
                            ELSE 0
            IN  IF (isSubtaskId /\ subIndex = 0) \/ (~isSubtaskId /\ parentIndex = 0) THEN
                    Outcome(data, Failure("Task/subtask ID not found for update"))
                ELSE LET
                    taskToUpdateObject == IF isSubtaskId THEN tasks[parentIndex].subtasks[subIndex]
                                          ELSE tasks[parentIndex]
                    put(item) ==
                        [tasks |-> IF isSubtaskId
                                   THEN [tasks EXCEPT ![parentIndex].subtasks[subIndex] = item]
                                   ELSE [tasks EXCEPT ![parentIndex] = item]]
                    isAppendMode == originalToolArgs.append
                    fullUpdate(parsedAgentTask) ==
                        IF IsCompleted(taskToUpdateObject) THEN Outcome(data, Success(FALSE))
                        ELSE IF isSubtaskId THEN
                            WriteAndGenerate(
                                put(Spread(taskToUpdateObject,
                                           Spread(parsedAgentTask, [id |-> taskIdToUpdate.sub]))),
                                generateOk)
                        ELSE
                            WriteAndGenerate(
                                put(Spread(taskToUpdateObject,
                                           Spread(parsedAgentTask,
                                                  [id |-> taskIdToUpdate.parent,
                                                   subtasks |-> FinalSubtasks(taskToUpdateObject,
                                                                              parsedAgentTask)]))),
                                generateOk)
                IN  IF agentOutput.t = "string" /\ isAppendMode THEN
                        IF IsCompleted(taskToUpdateObject) THEN Outcome(data, Success(FALSE))
                        ELSE WriteAndGenerate(
                                 put([taskToUpdateObject EXCEPT
                                          !.details = Append(@, InfoBlock(agentOutput.text))]),
                                 generateOk)
                    ELSE IF agentOutput.t = "string" THEN
                        IF agentOutput.parses THEN fullUpdate(agentOutput.task)
                        ELSE thrown("parseUpdatedTaskFromText failed")
                    ELSE IF agentOutput.t = "object" THEN fullUpdate(agentOutput.task)
                    ELSE Outcome(data, Failure("Invalid agentOutput format"))

\* a || b || c over strings: the first that is not empty
FirstNonEmpty(strings) ==
    LET nonEmpty(x) == x # ""
        found == SelectSeq(strings, nonEmpty)
    IN  IF found = <<>> THEN "" ELSE Head(found)

\* The property of an agent's object, "" when it has none
StringField(object, f) == IF HasField(object, f) THEN object[f] ELSE ""

\* A text of one part, or the empty text
TextOf(string) == IF string = "" THEN <<>> ELSE <<Text(string)>>

\* Faulty variant: the id collision is not checked
IdCollisionNotChecked(tasks, id) == FALSE

\* allTasksData.tasks.some((t) => t.id === newTask.id)
IdCollision(tasks, id) == \E i \in DOMAIN tasks : tasks[i].id = id

\* saveNewTaskFromAgent(agentTaskData, projectRoot, log, originalToolArgs, delegatedRequestParams)
saveNewTaskFromAgent(data, agentTaskData, originalToolArgs, delegatedRequestParams, generateOk) ==
    IF agentTaskData.t # "object" THEN
        Outcome(data, Failure("Invalid agentTaskData structure"))
    ELSE IF ~HasField(delegatedRequestParams, "newTaskId") THEN
        Outcome(data, Failure("Missing or invalid newTaskId in delegatedRequestParams"))
    ELSE LET
        agent == agentTaskData.task
        newTask ==
            [id |-> delegatedRequestParams.newTaskId,
             title |-> FirstNonEmpty(<<StringField(agent, "title"), originalToolArgs.prompt,
                                       "Untitled Task from Agent">>),
             description |-> TextOf(FirstNonEmpty(<<StringField(agent, "description"),
                                                    originalToolArgs.prompt>>)),
             details |-> TextOf(StringField(agent, "details")),
             testStrategy |-> StringField(agent, "testStrategy"),
             status |-> "pending",
             dependencies |-> IF HasField(agent, "dependencies") THEN agent.dependencies
                              ELSE IF HasField(delegatedRequestParams, "userDependencies")
                                   THEN delegatedRequestParams.userDependencies
                                   ELSE <<>>,
             priority |-> FirstNonEmpty(<<StringField(delegatedRequestParams, "userPriority"),
                                          "medium">>),
             subtasks |-> <<>>]
        allTasksData == IF HasField(data, "tasks") THEN data ELSE [tasks |-> <<>>]
    IN  IF IdCollision(allTasksData.tasks, newTask.id) THEN
            Outcome(data, Failure("Task ID already exists. Cannot add task."))
        ELSE
            WriteAndGenerate([tasks |-> SortById(Append(allTasksData.tasks, newTask))],
                             generateOk)

\* saveTasksFromAgentData(tasksData, projectRoot, log): the store is not read
saveTasksFromAgentData(data, tasksData, generateOk) ==
    IF \/ tasksData.t # "object"
       \/ ~HasField(tasksData, "tasks")
       \/ ~tasksData.metadata
    THEN Outcome(data, Failure("Invalid tasksData structure"))
    ELSE WriteAndGenerate([tasks |-> tasksData.tasks], generateOk)

\* parseSubtasksFromText(text, startId, expectedCount, parentTaskId, logger):
\* the subtasks read from the text, numbered startId, startId + 1, ...
parseSubtasksFromText(parsed, startId) ==
    [i \in DOMAIN parsed |-> [parsed[i] EXCEPT !.id = startId + i - 1]]

\* saveExpandedTaskData(agentOutput, parentTaskIdNum, projectRoot, log, originalTaskDetails)
\* A string payload carries what its text holds; an array or an object is taken as it is
saveExpandedTaskData(data, agentOutput, parentTaskIdNum, originalTaskDetails, generateOk) ==
    IF ~HasField(data, "tasks") THEN Outcome(data, Failure("Invalid or missing tasks data"))
    ELSE LET
        tasks == data.tasks
        taskIndex == IndexOfId(tasks, parentTaskIdNum)
    IN  IF taskIndex = 0 THEN Outcome(data, Failure("Parent task not found"))
        ELSE IF agentOutput.t = "string" /\ ~agentOutput.parses THEN
            Outcome(data, Failure("parseSubtasksFromText failed"))
        ELSE IF agentOutput.t \notin {"string", "array", "object"}
                \/ (agentOutput.t = "object" /\ ~HasField(agentOutput, "subtasks")) THEN
            Outcome(data, Failure("Invalid agentOutput format"))
        ELSE LET
            subtasksToSave ==
                IF agentOutput.t = "string"
                THEN parseSubtasksFromText(agentOutput.subtasks, originalTaskDetails.nextSubtaskId)
                ELSE agentOutput.subtasks
            parentTask == tasks[taskIndex]
            existing == IF HasSubtasks(parentTask) THEN parentTask.subtasks ELSE <<>>
        IN  WriteAndGenerate(
                [tasks |-> [tasks EXCEPT ![taskIndex] =
                                Spread(parentTask, [subtasks |-> existing \o subtasksToSave])]],
                generateOk)

\* handleAgentResearchResult(agentResearchText, originalResearchArgs, projectRoot, log, session)
\* saveTo is [parent |-> p, sub |-> s] as above, with parent 0 when it is not given
handleAgentResearchResult(data, agentResearchText, originalResearchArgs, fileOk) ==
    IF agentResearchText.t # "string" \/ agentResearchText.text = "" THEN
        Outcome(data, Failure("Agent provided no research content."))
    ELSE LET
        saveTo == originalResearchArgs.saveTo
        fileFailed == originalResearchArgs.saveToFile /\ ~fileOk
        researchContent == InfoBlock(agentResearchText.text)
        finish(store, failed, updated) ==
            Outcome(store, IF failed \/ fileFailed
                           THEN [success |-> FALSE, error |-> "errors", updated |-> updated]
                           ELSE Success(updated))
    IN  IF saveTo.parent = 0 THEN finish(data, FALSE, FALSE)
        ELSE IF ~HasField(data, "tasks") THEN finish(data, TRUE, FALSE)
        ELSE LET
            tasks == data.tasks
            parentIndex == IndexOfId(tasks, saveTo.parent)
        IN  IF parentIndex = 0 THEN finish(data, TRUE, FALSE)
            ELSE IF saveTo.sub = 0 THEN
                finish([tasks |-> [tasks EXCEPT ![parentIndex].details =
                                       Append(@, researchContent)]],
                       FALSE, TRUE)
            ELSE IF ~HasSubtasks(tasks[parentIndex]) THEN finish(data, TRUE, FALSE)
            ELSE LET subIndex == IndexOfId(tasks[parentIndex].subtasks, saveTo.sub)
                 IN  IF subIndex = 0 THEN finish(data, TRUE, FALSE)
                     ELSE finish([tasks |-> [tasks EXCEPT
                                               ![parentIndex].subtasks[subIndex].details =
                                                   Append(@, researchContent)]],
                                 FALSE, TRUE)

\* saveSubtaskDetailsFromAgent(agentOutputString, subtaskIdToUpdate, projectRoot, log, originalToolArgs)
saveSubtaskDetailsFromAgent(data, agentOutputString, subtaskIdToUpdate, originalToolArgs, generateOk) ==
    IF agentOutputString.t # "string" THEN
        Outcome(data, Failure("Invalid agentOutputString format"))
    ELSE IF agentOutputString.text = "" THEN Outcome(data, Success(FALSE))
    ELSE IF ~HasField(data, "tasks") THEN
        Outcome(data, Failure("Invalid or missing tasks data"))
    ELSE IF subtaskIdToUpdate.sub = 0 THEN
        Outcome(data, Failure("Invalid subtask ID format"))
    ELSE LET
        tasks == data.tasks
        parentTaskIndex == IndexOfId(tasks, subtaskIdToUpdate.parent)
    IN  IF parentTaskIndex = 0 THEN Outcome(data, Failure("Parent task not found"))
        ELSE IF ~HasSubtasks(tasks[parentTaskIndex]) THEN
            Outcome(data, Failure("Parent task has no subtasks array"))
        ELSE LET
            subtaskIndex == IndexOfId(tasks[parentTaskIndex].subtasks, subtaskIdToUpdate.sub)
        IN  IF subtaskIndex = 0 THEN Outcome(data, Failure("Subtask not found"))
            ELSE LET
                subtask == tasks[parentTaskIndex].subtasks[subtaskIndex]
                withDetails ==
                    [subtask EXCEPT !.details = Append(@, InfoBlock(agentOutputString.text))]
                updated ==
                    IF HasField(subtask, "description") /\ subtask.description # <<>>
                       /\ originalToolArgs.shortPrompt
                    THEN [withDetails EXCEPT !.description = Append(@, UpdatedMarker)]
                    ELSE withDetails
            IN  IF IsCompleted(subtask) THEN Outcome(data, Success(FALSE))
                ELSE WriteAndGenerate(
                         [tasks |-> [tasks EXCEPT
                                       ![parentTaskIndex].subtasks[subtaskIndex] = updated]],
                         generateOk)

\* new Map(array.map(task => [task.id, task])).get(id): the last task with this id
AgentTaskOfId(array, id) ==
    array[CHOOSE i \in DOMAIN array :
              array[i].id = id /\ \A j \in (i + 1)..Len(array) : array[j].id # id]

\* Faulty variant: the agent's list is written in the place of the store's tasks
saveMultipleTasksReplacingStore(data, agentOutput, generateOk) ==
    IF HasField(agentOutput, "tasks") /\ HasField(data, "tasks")
    THEN WriteAndGenerate([tasks |-> agentOutput.tasks], generateOk)
    ELSE Outcome(data, Failure("Invalid agentOutput format"))

\* saveMultipleTasksFromAgent(agentOutput, projectRoot, log)
\* A string payload carries what parseUpdatedTasksFromText makes of it
saveMultipleTasksFromAgent(data, agentOutput, generateOk) ==
    IF agentOutput.t = "string" /\ ~agentOutput.parses THEN
        Outcome(data, Failure("Failed to parse agentOutput string"))
    ELSE IF agentOutput.t \notin {"string", "array"} THEN
        Outcome(data, Failure("Invalid agentOutput format"))
    ELSE LET parsedAgentTasksArray == agentOutput.tasks
    IN  IF /\ agentOutput.t = "array"
           /\ \E i \in DOMAIN parsedAgentTasksArray :
                  ~HasField(parsedAgentTasksArray[i], "id")
                  \/ ~HasField(parsedAgentTasksArray[i], "title")
        THEN Outcome(data, Failure("Agent output array contains invalid task objects"))
        ELSE IF parsedAgentTasksArray = <<>> THEN Outcome(data, Success(FALSE))
        ELSE IF ~HasField(data, "tasks") THEN
            Outcome(data, Failure("Invalid or missing tasks data"))
        ELSE LET
            tasks == data.tasks
            listed(i) == \E j \in DOMAIN parsedAgentTasksArray :
                             parsedAgentTasksArray[j].id = tasks[i].id
            updatedTask(i) ==
                LET originalTask == tasks[i]
                    agentTask == AgentTaskOfId(parsedAgentTasksArray, originalTask.id)
                IN  Spread(originalTask,
                           Spread(agentTask,
                                  [id |-> originalTask.id,
                                   subtasks |-> FinalSubtasks(originalTask, agentTask)]))
            updates == { i \in DOMAIN tasks : listed(i) /\ ~IsCompleted(tasks[i]) }
        IN  IF updates = {} THEN Outcome(data, Success(FALSE))
            ELSE WriteAndGenerate(
                     [tasks |-> [i \in DOMAIN tasks |->
                                    IF i \in updates THEN updatedTask(i) ELSE tasks[i]]],
                     generateOk)

----------------------------------------------------------------------------
(* The savers run on a task store *)

\* The subtask lists and the tasks that tasks.json holds at the start
StoredSubtaskLists ==
    { <<>>,
      <<Subtask(1, "done")>>,
      <<Subtask(1, "done"), Subtask(2, "pending")>>,
      <<Subtask(1, "pending"), Subtask(2, "completed")>> }
StoredTasks ==
    { Task(1, status, subtasks) :
        status \in {"pending", "done", "completed"}, subtasks \in StoredSubtaskLists }
    \cup {TaskWithoutSubtasks(1, "pending")}
Stores ==
    {NoTasksFile, [tasks |-> <<>>]}
    \cup { [tasks |-> <<task>>] : task \in StoredTasks }
    \cup { [tasks |-> <<task, Task(2, status, <<>>)>>] :
             task \in StoredTasks, status \in {"pending", "done"} }

\* Ids of tasks and subtasks as the tools' arguments give them: "1", "1.1", "1.2", "2", "3"
ItemIds ==
    { [parent |-> 1, sub |-> 0], [parent |-> 1, sub |-> 1], [parent |-> 1, sub |-> 2],
      [parent |-> 2, sub |-> 0], [parent |-> 3, sub |-> 0] }

\* The subtask lists and the task objects an agent may send
AgentSubtaskLists ==
    { <<>>,
      <<Subtask(1, "done")>>,
      <<[Subtask(1, "pending") EXCEPT !.title = "changed"]>>,
      <<Subtask(3, "pending"), Subtask(2, "pending")>>,
      <<[Subtask(2, "pending") EXCEPT !.title = "changed"], Subtask(2, "completed")>>,
      <<Subtask(3, "done"), [Subtask(3, "done") EXCEPT !.title = "changed"]>> }
AgentTasks ==
    { [id |-> 1, title |-> "new", status |-> "in-progress"],
      [id |-> 2, title |-> "new", status |-> "in-progress"],
      [id |-> 1, status |-> "pending"] }
    \cup { [id |-> 1, title |-> "new", status |-> "in-progress", subtasks |-> subtasks] :
             subtasks \in AgentSubtaskLists }

\* A payload that is a string, with what the parser of the saver makes of it
\* (parses is FALSE when the parser throws)
AgentText == [t |-> "string", text |-> "note", parses |-> FALSE]
\* A payload that is neither a string nor an object
AgentNumber == [t |-> "number"]

UpdateTaskOutputs ==
    { [t |-> "object", task |-> task] : task \in AgentTasks }
    \cup { [t |-> "string", text |-> "json", parses |-> TRUE, task |-> task] :
             task \in AgentTasks }
    \cup {AgentText, AgentNumber}

UpdateTasksOutputs ==
    { [t |-> "array", tasks |-> tasks] :
        tasks \in {<<>>} \cup { <<task>> : task \in AgentTasks }
                  \cup { <<first, second>> :
                           first \in {[id |-> 2, title |-> "new", status |-> "in-progress"]},
                           second \in AgentTasks } }
    \cup { [t |-> "string", text |-> "json", parses |-> TRUE, tasks |-> <<task>>] :
             task \in AgentTasks }
    \cup {AgentText, AgentNumber}

ParsePrdOutputs ==
    { [t |-> "object", tasks |-> tasks, metadata |-> metadata] :
        tasks \in {<<>>, <<Task(1, "pending", <<>>)>>,
                   <<Task(1, "pending", <<>>), Task(2, "pending", <<>>)>>},
        metadata \in BOOLEAN }
    \cup {[t |-> "object", metadata |-> TRUE], AgentText}

\* originalTaskDetailsForSaver: the hints recovered from the directive
OriginalTaskDetails == { [numSubtasks |-> 3, nextSubtaskId |-> n] : n \in {1, 3} }

ExpandTaskOutputs ==
    { [t |-> kind, subtasks |-> subtasks] :
        kind \in {"array", "object"}, subtasks \in AgentSubtaskLists }
    \cup { [t |-> "string", text |-> "json", parses |-> TRUE, subtasks |-> subtasks] :
             subtasks \in { <<Subtask(1, "pending")>>,
                            <<Subtask(3, "pending"), Subtask(2, "pending")>> } }
    \cup {[t |-> "object"], AgentText, AgentNumber}

AddTaskOutputs ==
    { [t |-> "object", task |-> task] :
        task \in { [title |-> "new", description |-> "about", details |-> "how",
                    testStrategy |-> "test"],
                   [details |-> "how", dependencies |-> <<1>>] } }
    \cup {AgentText}

AddTaskRequestParameters ==
    { [newTaskId |-> id, userDependencies |-> <<>>, userPriority |-> "high"] : id \in 1..3 }
    \cup {[userPriority |-> ""]}

TextOutputs == { [t |-> "string", text |-> "note"], [t |-> "string", text |-> ""], AgentNumber }

\* A saver has run: tasks.json holds what it wrote and its result is returned
SaverReturnsCall(call, outcome) ==
    /\ saverRuns < MaxSaverRuns
    /\ saverCall' = call
    /\ tasksJson' = outcome.store
    /\ saveResult' = outcome.result
    /\ saverRuns' = saverRuns + 1
    /\ UNCHANGED <<serverVars, unitVars>>

SaverReturns(saver, id, append, outcome) ==
    SaverReturnsCall([NoCall EXCEPT !.saver = saver, !.id = id, !.append = append], outcome)

RunSaveTasksFromAgentData(tasksData, generateOk) ==
    SaverReturns("saveTasksFromAgentData", NoId, FALSE,
                 saveTasksFromAgentData(tasksJson, tasksData, generateOk))

RunSaveExpandedTaskData(agentOutput, parentTaskIdNum, originalTaskDetails, generateOk) ==
    SaverReturnsCall([saver |-> "saveExpandedTaskData",
                      id |-> [parent |-> parentTaskIdNum, sub |-> 0],
                      append |-> FALSE,
                      nextSubtaskId |-> originalTaskDetails.nextSubtaskId,
                      numReturned |-> IF HasField(agentOutput, "subtasks")
                                      THEN Len(agentOutput.subtasks) ELSE 0],
                 saveExpandedTaskData(tasksJson, agentOutput, parentTaskIdNum,
                                      originalTaskDetails, generateOk))

RunSaveUpdatedTaskFromAgent(agentOutput, taskIdToUpdate, originalToolArgs, generateOk) ==
    SaverReturns("saveUpdatedTaskFromAgent", taskIdToUpdate, originalToolArgs.append,
                 saveUpdatedTaskFromAgent(tasksJson, agentOutput, taskIdToUpdate,
                                          originalToolArgs, generateOk))

RunSaveNewTaskFromAgent(agentTaskData, originalToolArgs, delegatedRequestParams, generateOk) ==
    SaverReturns("saveNewTaskFromAgent",
                 IF HasField(delegatedRequestParams, "newTaskId")
                 THEN [parent |-> delegatedRequestParams.newTaskId, sub |-> 0] ELSE NoId,
                 FALSE,
                 saveNewTaskFromAgent(tasksJson, agentTaskData, originalToolArgs,
                                      delegatedRequestParams, generateOk))

RunSaveSubtaskDetailsFromAgent(agentOutputString, subtaskIdToUpdate, originalToolArgs, generateOk) ==
    SaverReturns("saveSubtaskDetailsFromAgent", subtaskIdToUpdate, TRUE,
                 saveSubtaskDetailsFromAgent(tasksJson, agentOutputString, subtaskIdToUpdate,
                                             originalToolArgs, generateOk))

RunSaveMultipleTasksFromAgent(agentOutput, generateOk) ==
    SaverReturns("saveMultipleTasksFromAgent", NoId, FALSE,
                 saveMultipleTasksFromAgent(tasksJson, agentOutput, generateOk))

RunHandleAgentResearchResult(agentResearchText, originalResearchArgs, fileOk) ==
    SaverReturns("handleAgentResearchResult", originalResearchArgs.saveTo, TRUE,
                 handleAgentResearchResult(tasksJson, agentResearchText, originalResearchArgs,
                                           fileOk))

\* The original arguments of update_task / update_subtask / add_task
UpdateToolArgs == { [append |-> append, prompt |-> "p", shortPrompt |-> TRUE] :
                      append \in BOOLEAN }
\* ... and of research
ResearchToolArgs ==
    { [saveTo |-> saveTo, saveToFile |-> saveToFile] :
        saveTo \in ItemIds \cup {NoId}, saveToFile \in BOOLEAN }

SaverInit ==
    /\ initialized = TRUE
    /\ registeredTools = ToolNames
    /\ pendingAgentLLMInteractions = <<>>
    /\ promises = <<>>
    /\ dispatches = <<>>
    /\ postProcessors = <<>>
    /\ returning = Idle
    /\ callerReceived = <<>>
    /\ tasksJson \in Stores
    /\ saveResult = NoResult
    /\ saverRuns = 0
    /\ saverCall = NoCall
    /\ unitCall = NoUnitCall
    /\ unitResult = Undefined
    /\ running = <<>>

SaverNext ==
    \/ \E tasksData \in ParsePrdOutputs, generateOk \in BOOLEAN :
           RunSaveTasksFromAgentData(tasksData, generateOk)
    \/ \E agentOutput \in ExpandTaskOutputs, id \in 1..3, details \in OriginalTaskDetails,
          generateOk \in BOOLEAN :
           RunSaveExpandedTaskData(agentOutput, id, details, generateOk)
    \/ \E agentOutput \in UpdateTaskOutputs, id \in ItemIds, args \in UpdateToolArgs,
          generateOk \in BOOLEAN :
           RunSaveUpdatedTaskFromAgent(agentOutput, id, args, generateOk)
    \/ \E agentTaskData \in AddTaskOutputs, args \in UpdateToolArgs,
          params \in AddTaskRequestParameters, generateOk \in BOOLEAN :
           RunSaveNewTaskFromAgent(agentTaskData, args, params, generateOk)
    \/ \E text \in TextOutputs, id \in ItemIds, args \in UpdateToolArgs,
          generateOk \in BOOLEAN :
           RunSaveSubtaskDetailsFromAgent(text, id, args, generateOk)
    \/ \E agentOutput \in UpdateTasksOutputs, generateOk \in BOOLEAN :
           RunSaveMultipleTasksFromAgent(agentOutput, generateOk)
    \/ \E text \in TextOutputs, args \in ResearchToolArgs, fileOk \in BOOLEAN :
           RunHandleAgentResearchResult(text, args, fileOk)

SaverSpec == SaverInit /\ [][SaverNext]_vars

----------------------------------------------------------------------------
(* The agent_llm tool's execute called on its own *)

\* Arguments that pass agentLLMParameters: interactionId absent (0) or given,
\* either form absent or given, and a project root
BrokerArgs ==
    { [interactionId |-> i, delegatedCallDetails |-> d, agentLLMResponse |-> r,
       projectRoot |-> root] :
        i \in 0..MaxIds,
        d \in {Undefined, ParsePrdCall, UpdateTasksCall},
        r \in {Undefined} \cup AgentLLMResponses,
        root \in {"/p", "/q"} }

\* const result = await toolExecuteFn(args, context)
BrokerExecute(args) ==
    /\ unitCall' = [fn |-> "agent_llm.execute", args |-> args]
    /\ unitResult' = AgentLLMExecute(args)
    /\ UNCHANGED <<serverVars, storeVars, running>>

\* registerAgentLLMTool(server) on a server that holds nothing else
BrokerInit ==
    /\ initialized = FALSE
    /\ registeredTools = {BrokerTool}
    /\ pendingAgentLLMInteractions = <<>>
    /\ promises = <<>>
    /\ dispatches = <<>>
    /\ postProcessors = <<>>
    /\ returning = Idle
    /\ callerReceived = <<>>
    /\ tasksJson = NoTasksFile
    /\ saveResult = NoResult
    /\ saverRuns = 0
    /\ saverCall = NoCall
    /\ unitCall = NoUnitCall
    /\ unitResult = Undefined
    /\ running = <<>>

BrokerNext == \E args \in BrokerArgs : BrokerExecute(args)

BrokerSpec == BrokerInit /\ [][BrokerNext]_vars

----------------------------------------------------------------------------
(* The delegating provider, AgentLLMProvider *)

Null == [t |-> "null", v |-> ""]
Num(s) == [t |-> "number", v |-> s]
True == [t |-> "boolean", v |-> "true"]

\* The keys a parameter object may carry; a key whose value is Undefined is
\* a key the object does not have
ProviderParams ==
    [modelId : {Str("m"), Str("n")},
     messages : {Obj("hello"), Obj("hi")},
     maxTokens : {Undefined, Num("100")},
     temperature : {Undefined, Num("0.7")},
     baseURL : {Undefined, Str("http://localhost:8080")},
     apiKey : {Undefined, Str("k")},
     schema : {Undefined, Obj("schema")},
     objectName : {Undefined, Str("tasks")}]

\* const { <taken>, ...restApiParams } = params
RestApiParams(params, taken) ==
    LET keys == {k \in DOMAIN params \ taken : params[k] # Undefined}
    IN  [k \in keys |-> params[k]]

\* packagedParams of generateText and of streamText: restApiParams is spread
\* last, so a key of it replaces the key of the same name written before it
PackagedTextParams(params) ==
    Spread([apiKey |-> Null,
                modelId |-> params.modelId,
                messages |-> params.messages,
                maxTokens |-> params.maxTokens,
                temperature |-> params.temperature,
                baseURL |-> params.baseURL],
               RestApiParams(params, {"modelId", "messages", "maxTokens", "temperature"}))

\* packagedParams of generateObject
PackagedObjectParams(params) ==
    Spread([apiKey |-> Null,
                modelId |-> params.modelId,
                messages |-> params.messages,
                maxTokens |-> params.maxTokens,
                temperature |-> params.temperature,
                schema |-> params.schema,
                objectName |-> params.objectName,
                baseURL |-> params.baseURL],
               RestApiParams(params, {"modelId", "messages", "maxTokens", "temperature",
                                      "schema", "objectName"}))

DelegationToken(details) ==
    [type |-> "agent_llm_delegation", interactionId |-> uuidv4, details |-> details]

generateText(params) == DelegationToken(PackagedTextParams(params))
streamText(params) == DelegationToken(PackagedTextParams(params))
generateObject(params) == DelegationToken(PackagedObjectParams(params))
validateAuth(params) == True

\* One call of a provider method: it returns a value and touches nothing else
ProviderReturns(fn, params, value) ==
    /\ unitCall' = [fn |-> fn, args |-> params]
    /\ unitResult' = value
    /\ UNCHANGED <<serverVars, storeVars, running>>

CallGenerateText(params) == ProviderReturns("generateText", params, generateText(params))
CallStreamText(params) == ProviderReturns("streamText", params, streamText(params))
CallGenerateObject(params) == ProviderReturns("generateObject", params, generateObject(params))
CallValidateAuth(params) == ProviderReturns("validateAuth", params, validateAuth(params))

\* provider = new AgentLLMProvider()
ProviderInit ==
    /\ initialized = FALSE
    /\ registeredTools = {}
    /\ pendingAgentLLMInteractions = <<>>
    /\ promises = <<>>
    /\ dispatches = <<>>
    /\ postProcessors = <<>>
    /\ returning = Idle
    /\ callerReceived = <<>>
    /\ tasksJson = NoTasksFile
    /\ saveResult = NoResult
    /\ saverRuns = 0
    /\ saverCall = NoCall
    /\ unitCall = NoUnitCall
    /\ unitResult = Undefined
    /\ running = <<>>

ProviderNext ==
    \E params \in ProviderParams :
        \/ CallGenerateText(params)
        \/ CallStreamText(params)
        \/ CallGenerateObject(params)
        \/ CallValidateAuth(params)

ProviderSpec == ProviderInit /\ [][ProviderNext]_vars

----------------------------------------------------------------------------
(* Savers of different interactions running side by side.  Each saver is an  *)
(* async function: the call runs it up to its first await, and it goes on    *)
(* from an await in a later turn of the event loop.                          *)

MaxConcurrent == 2     \* saver calls that are made in one run

\* The saver calls the agent-callback branch makes: the saver, its arguments,
\* and whether generateTaskFiles (for research: saveResearchToFile) succeeds
ConcurrentCalls ==
    { [saver |-> "saveTasksFromAgentData", ok |-> ok,
       output |-> [t |-> "object", tasks |-> <<Task(1, "pending", <<>>)>>, metadata |-> TRUE]] :
        ok \in BOOLEAN }
    \cup { [saver |-> "saveExpandedTaskData", ok |-> ok, id |-> [parent |-> 1, sub |-> 0],
            details |-> [numSubtasks |-> 3, nextSubtaskId |-> 3],
            output |-> [t |-> "array", subtasks |-> <<Subtask(3, "pending")>>]] :
             ok \in BOOLEAN }
    \cup { [saver |-> "saveUpdatedTaskFromAgent", ok |-> ok, id |-> [parent |-> 1, sub |-> 0],
            args |-> args,
            output |-> [t |-> "object",
                        task |-> [id |-> 1, title |-> "new", status |-> "in-progress"]]] :
             ok \in BOOLEAN, args \in UpdateToolArgs }
    \cup { [saver |-> "saveNewTaskFromAgent", ok |-> ok,
            args |-> [append |-> FALSE, prompt |-> "p", shortPrompt |-> TRUE],
            params |-> [newTaskId |-> 3, userDependencies |-> <<>>, userPriority |-> "high"],
            output |-> [t |-> "object",
                        task |-> [title |-> "new", description |-> "about", details |-> "how",
                                  testStrategy |-> "test"]]] :
             ok \in BOOLEAN }
    \cup { [saver |-> "saveSubtaskDetailsFromAgent", ok |-> ok, id |-> [parent |-> 1, sub |-> 2],
            args |-> [append |-> FALSE, prompt |-> "p", shortPrompt |-> TRUE],
            output |-> [t |-> "string", text |-> "note"]] :
             ok \in BOOLEAN }
    \cup { [saver |-> "saveMultipleTasksFromAgent", ok |-> ok,
            output |-> [t |-> "array",
                        tasks |-> <<[id |-> 2, title |-> "new", status |-> "in-progress"]>>]] :
             ok \in BOOLEAN }
    \cup { [saver |-> "handleAgentResearchResult", ok |-> ok,
            args |-> [saveTo |-> saveTo, saveToFile |-> saveToFile],
            output |-> [t |-> "string", text |-> "note"]] :
             ok \in BOOLEAN, saveToFile \in BOOLEAN,
             saveTo \in {[parent |-> 2, sub |-> 0], [parent |-> 1, sub |-> 1]} }

\* The stores the savers start from
ConcurrentStores ==
    { NoTasksFile,
      [tasks |-> <<Task(1, "pending", <<>>)>>],
      [tasks |-> <<Task(1, "pending", <<Subtask(1, "done"), Subtask(2, "pending")>>),
                   Task(2, "pending", <<>>)>>],
      [tasks |-> <<Task(1, "done", <<Subtask(1, "pending"), Subtask(2, "completed")>>),
                   Task(2, "done", <<>>)>>] }

\* The saver of a call run on the store `data`: what it writes and what it returns
CallOutcome(call, data) ==
    CASE call.saver = "saveTasksFromAgentData" ->
             saveTasksFromAgentData(data, call.output, call.ok)
      [] call.saver = "saveExpandedTaskData" ->
             saveExpandedTaskData(data, call.output, call.id.parent, call.details, call.ok)
      [] call.saver = "saveUpdatedTaskFromAgent" ->
             saveUpdatedTaskFromAgent(data, call.output, call.id, call.args, call.ok)
      [] call.saver = "saveNewTaskFromAgent" ->
             saveNewTaskFromAgent(data, call.output, call.args, call.params, call.ok)
      [] call.saver = "saveSubtaskDetailsFromAgent" ->
             saveSubtaskDetailsFromAgent(data, call.output, call.id, call.args, call.ok)
      [] call.saver = "saveMultipleTasksFromAgent" ->
             saveMultipleTasksFromAgent(data, call.output, call.ok)
      [] call.saver = "handleAgentResearchResult" ->
             handleAgentResearchResult(data, call.output, call.args, call.ok)

\* What a store holds, item by item: its tasks and their subtasks (by id), and
\* the blocks of their details
StoreItems(store) ==
    LET tasks == IF HasField(store, "tasks") THEN store.tasks ELSE <<>>
        subtasks(task) == IF HasSubtasks(task) THEN task.subtasks ELSE <<>>
        blocks(item) == IF HasField(item, "details") THEN item.details ELSE <<>>
    IN  UNION { {<<"task", tasks[i].id, 0, Text("")>>}
                \cup { <<"details", tasks[i].id, 0, blocks(tasks[i])[d]>> :
                         d \in DOMAIN blocks(tasks[i]) }
                \cup UNION { {<<"subtask", tasks[i].id, subtasks(tasks[i])[j].id, Text("")>>}
                             \cup { <<"details", tasks[i].id, subtasks(tasks[i])[j].id,
                                      blocks(subtasks(tasks[i])[j])[d]>> :
                                      d \in DOMAIN blocks(subtasks(tasks[i])[j]) } :
                             j \in DOMAIN subtasks(tasks[i]) } :
                i \in DOMAIN tasks }

\* The store a saver mutates: readJSON is called in the same turn as writeJSON
ReadStore(p) == tasksJson

\* readJSON ... writeJSON of the p-th call, up to the await that follows the write
ReadModifyWrite(p, call, next) ==
    LET outcome == CallOutcome(call, ReadStore(p))
    IN  /\ tasksJson' = outcome.store
        /\ running' = [next EXCEPT ![p].pc = "awaiting",
                                   ![p].result = outcome.result,
                                   ![p].added = StoreItems(outcome.store) \ StoreItems(ReadStore(p))]

\* The agent-callback branch calls a saver: it runs up to its first await.
\* handleAgentResearchResult with saveToFile awaits saveResearchToFile before it reads.
SaverCalled(call) ==
    /\ Len(running) < MaxConcurrent
    /\ LET p == Len(running) + 1
           next == Append(running, [call |-> call, pc |-> "called",
                                    result |-> NoResult, added |-> {}])
       IN  IF call.saver = "handleAgentResearchResult" /\ call.args.saveToFile
           THEN /\ running' = [next EXCEPT ![p].pc = "savingFile"]
                /\ UNCHANGED tasksJson
           ELSE ReadModifyWrite(p, call, next)
    /\ UNCHANGED <<serverVars, saveResult, saverRuns, saverCall, unitCall, unitResult>>

\* saveResearchToFile has settled: the research saver goes on to read and write
ResearchFileSaved(p) ==
    /\ p \in DOMAIN running
    /\ running[p].pc = "savingFile"
    /\ ReadModifyWrite(p, running[p].call, running)
    /\ UNCHANGED <<serverVars, saveResult, saverRuns, saverCall, unitCall, unitResult>>

\* The saver's promise settles: .then(saveResult => ...) of the wrapper runs
SaverSettles(p) ==
    /\ p \in DOMAIN running
    /\ running[p].pc = "awaiting"
    /\ running' = [running EXCEPT ![p].pc = "done"]
    /\ saveResult' = running[p].result
    /\ UNCHANGED <<serverVars, tasksJson, saverRuns, saverCall, unitCall, unitResult>>

ConcurrentInit ==
    /\ initialized = TRUE
    /\ registeredTools = ToolNames
    /\ pendingAgentLLMInteractions = <<>>
    /\ promises = <<>>
    /\ dispatches = <<>>
    /\ postProcessors = <<>>
    /\ returning = Idle
    /\ callerReceived = <<>>
    /\ tasksJson \in ConcurrentStores
    /\ saveResult = NoResult
    /\ saverRuns = 0
    /\ saverCall = NoCall
    /\ unitCall = NoUnitCall
    /\ unitResult = Undefined
    /\ running = <<>>

ConcurrentNext ==
    \/ \E call \in ConcurrentCalls : SaverCalled(call)
    \/ \E p \in 1..MaxConcurrent : ResearchFileSaved(p)
    \/ \E p \in 1..MaxConcurrent : SaverSettles(p)

ConcurrentSpec == ConcurrentInit /\ [][ConcurrentNext]_vars

----------------------------------------------------------------------------
(* The three update savers called on their own, once, on a store *)

\* The ids of the store's tasks that the bulk saver's log lines and its
\* updatedTaskIds name: the listed tasks it finds while it walks the store
MultipleTasksMentions(data, agentOutput) ==
    IF HasField(data, "tasks") /\ HasField(agentOutput, "tasks")
    THEN { data.tasks[i].id : i \in { k \in DOMAIN data.tasks :
                                          \E j \in DOMAIN agentOutput.tasks :
                                              HasField(agentOutput.tasks[j], "id")
                                              /\ agentOutput.tasks[j].id = data.tasks[k].id } }
    ELSE {}

\* An update saver has run on the store: what it was given, what it wrote
\* and what it returned and logged
UpdateReturns(fn, args, outcome, mentions) ==
    /\ unitCall.fn = ""
    /\ unitCall' = [fn |-> fn, args |-> args]
    /\ unitResult' = [result |-> outcome.result, mentions |-> mentions]
    /\ tasksJson' = outcome.store
    /\ saveResult' = outcome.result
    /\ UNCHANGED <<serverVars, saverRuns, saverCall, running>>

UpdateOneTask(agentOutput, taskIdToUpdate, originalToolArgs, generateOk) ==
    UpdateReturns("saveUpdatedTaskFromAgent",
                  [output |-> agentOutput, id |-> taskIdToUpdate,
                   append |-> originalToolArgs.append],
                  saveUpdatedTaskFromAgent(tasksJson, agentOutput, taskIdToUpdate,
                                           originalToolArgs, generateOk),
                  {})

UpdateOneSubtask(agentOutputString, subtaskIdToUpdate, originalToolArgs, generateOk) ==
    UpdateReturns("saveSubtaskDetailsFromAgent",
                  [output |-> agentOutputString, id |-> subtaskIdToUpdate, append |-> TRUE],
                  saveSubtaskDetailsFromAgent(tasksJson, agentOutputString, subtaskIdToUpdate,
                                              originalToolArgs, generateOk),
                  {})

UpdateManyTasks(agentOutput, generateOk) ==
    UpdateReturns("saveMultipleTasksFromAgent",
                  [output |-> agentOutput, id |-> NoId, append |-> FALSE],
                  saveMultipleTasksFromAgent(tasksJson, agentOutput, generateOk),
                  MultipleTasksMentions(tasksJson, agentOutput))

UpdateInit ==
    /\ initialized = TRUE
    /\ registeredTools = ToolNames
    /\ pendingAgentLLMInteractions = <<>>
    /\ promises = <<>>
    /\ dispatches = <<>>
    /\ postProcessors = <<>>
    /\ returning = Idle
    /\ callerReceived = <<>>
    /\ tasksJson \in Stores
    /\ saveResult = NoResult
    /\ saverRuns = 0
    /\ saverCall = NoCall
    /\ unitCall = NoUnitCall
    /\ unitResult = Undefined
    /\ running = <<>>

UpdateNext ==
    \/ \E agentOutput \in UpdateTaskOutputs, id \in ItemIds, args \in UpdateToolArgs,
          generateOk \in BOOLEAN :
           UpdateOneTask(agentOutput, id, args, generateOk)
    \/ \E text \in TextOutputs, id \in ItemIds, args \in UpdateToolArgs,
          generateOk \in BOOLEAN :
           UpdateOneSubtask(text, id, args, generateOk)
    \/ \E agentOutput \in UpdateTasksOutputs, generateOk \in BOOLEAN :
           UpdateManyTasks(agentOutput, generateOk)

UpdateSpec == UpdateInit /\ [][UpdateNext]_vars

----------------------------------------------------------------------------
(* saveComplexityReportFromAgent called on its own: the report file before the
   call is an input, the report it writes is its output *)

\* One entry of a report's complexityAnalysis
Analysis(taskId, complexityScore) == [taskId |-> taskId, complexityScore |-> complexityScore]

\* finalComplexityAnalysis.sort((a, b) => a.taskId - b.taskId)   (a stable sort)
RECURSIVE SortByTaskId(_)
SortByTaskId(seq) ==
    IF seq = <<>> THEN <<>>
    ELSE LET first == Head(seq)
             rest == SortByTaskId(Tail(seq))
             before(x) == x.taskId < first.taskId
             notBefore(x) == ~(x.taskId < first.taskId)
         IN  SelectSeq(rest, before) \o <<first>> \o SelectSeq(rest, notBefore)

\* The report file at outputPath before the call: absent, not readable as a
\* report (readJSON gives null, or an object without a complexityAnalysis
\* array), or a report with entries sorted by taskId as the saver writes them
NoReportFile == [exists |-> FALSE, valid |-> FALSE, complexityAnalysis |-> <<>>]

ExistingReports ==
    {NoReportFile, [exists |-> TRUE, valid |-> FALSE, complexityAnalysis |-> <<>>]}
    \cup { [exists |-> TRUE, valid |-> TRUE, complexityAnalysis |-> list] :
             list \in {<<>>, <<Analysis(1, 5)>>, <<Analysis(1, 5), Analysis(2, 7)>>,
                       <<Analysis(2, 7), Analysis(3, 3)>>} }

\* What the agent sends: an array of entries, an object holding the array, a
\* string (which JSON.parse accepts or not, and which then holds an array or
\* not) or anything else
AgentAnalyses ==
    {<<>>, <<Analysis(1, 9)>>, <<Analysis(3, 9)>>, <<Analysis(2, 9), Analysis(1, 9)>>,
     <<Analysis(1, 9), Analysis(1, 8)>>}

ComplexityOutputs ==
    { [kind |-> k, parses |-> TRUE, isArray |-> TRUE, entries |-> list] :
        k \in {"array", "object", "string"}, list \in AgentAnalyses }
    \cup {[kind |-> "string", parses |-> FALSE, isArray |-> FALSE, entries |-> <<>>],
          [kind |-> "string", parses |-> TRUE, isArray |-> FALSE, entries |-> <<>>],
          [kind |-> "other", parses |-> FALSE, isArray |-> FALSE, entries |-> <<>>]}

\* The arguments of the analyze_project_complexity call that was delegated
ComplexityToolArgs ==
    [ids : {"", "1,2"}, from : {Undefined, Num("0"), Num("2")}, to : {Undefined, Num("3")}]

\* originalToolArgs?.ids || originalToolArgs?.from !== undefined || originalToolArgs?.to !== undefined
analyzeSpecificTasks(originalToolArgs) ==
    \/ originalToolArgs.ids # ""
    \/ originalToolArgs.from # Undefined
    \/ originalToolArgs.to # Undefined

\* The filter left out: every existing entry is carried over
existingEntriesAllKept(existing, agentComplexityAnalysis) == existing

\* existingReport.complexityAnalysis.filter(item => !agentAnalyzedTaskIds.has(item.taskId))
existingEntriesNotReplaced(existing, agentComplexityAnalysis) ==
    LET agentAnalyzedTaskIds ==
            { agentComplexityAnalysis[i].taskId : i \in DOMAIN agentComplexityAnalysis }
        notReplaced(item) == item.taskId \notin agentAnalyzedTaskIds
    IN  SelectSeq(existing, notReplaced)

NothingWritten == [written |-> FALSE, analysisCount |-> 0, tasksAnalyzed |-> 0, complexityAnalysis |-> <<>>]

\* The saver: the result it returns and the report it writes
saveComplexityReportFromAgent(existingReport, agentOutput, originalToolArgs) ==
    IF agentOutput.kind = "string" /\ ~agentOutput.parses
    THEN [result |-> Failure("Failed to parse agent output string"), report |-> NothingWritten]
    ELSE IF agentOutput.kind = "other"
    THEN [result |-> Failure("Invalid agentOutput format"), report |-> NothingWritten]
    ELSE IF ~agentOutput.isArray
    THEN [result |-> Failure("Processed agent output is not an array"), report |-> NothingWritten]
    ELSE LET agentComplexityAnalysis == agentOutput.entries
             finalComplexityAnalysis ==
                 IF /\ existingReport.exists
                    /\ existingReport.valid
                    /\ analyzeSpecificTasks(originalToolArgs)
                 THEN existingEntriesNotReplaced(existingReport.complexityAnalysis,
                                                 agentComplexityAnalysis)
                      \o agentComplexityAnalysis
                 ELSE agentComplexityAnalysis
         IN  [result |-> [success |-> TRUE, error |-> "", updated |-> FALSE],
              report |-> [written |-> TRUE,
                          analysisCount |-> Len(finalComplexityAnalysis),
                          tasksAnalyzed |-> Len(agentComplexityAnalysis),
                          complexityAnalysis |-> SortByTaskId(finalComplexityAnalysis)]]

\* The post-processor of analyze_project_complexity runs the saver (one call
\* is followed here)
SaveComplexityReport(existingReport, agentOutput, originalToolArgs) ==
    LET outcome == saveComplexityReportFromAgent(existingReport, agentOutput, originalToolArgs)
    IN  /\ unitCall.fn = ""
        /\ unitCall' = [fn |-> "saveComplexityReportFromAgent",
                        args |-> [output |-> agentOutput, existing |-> existingReport,
                                  tool |-> originalToolArgs]]
        /\ unitResult' = outcome
        /\ saveResult' = outcome.result
        /\ UNCHANGED <<serverVars, tasksJson, saverRuns, saverCall, running>>

ReportInit ==
    /\ initialized = TRUE
    /\ registeredTools = ToolNames
    /\ pendingAgentLLMInteractions = <<>>
    /\ promises = <<>>
    /\ dispatches = <<>>
    /\ postProcessors = <<>>
    /\ returning = Idle
    /\ callerReceived = <<>>
    /\ tasksJson \in Stores
    /\ saveResult = NoResult
    /\ saverRuns = 0
    /\ saverCall = NoCall
    /\ unitCall = NoUnitCall
    /\ unitResult = Undefined
    /\ running = <<>>

ReportNext ==
    \E existingReport \in ExistingReports, agentOutput \in ComplexityOutputs,
       originalToolArgs \in ComplexityToolArgs :
        SaveComplexityReport(existingReport, agentOutput, originalToolArgs)

ReportSpec == ReportInit /\ [][ReportNext]_vars

----------------------------------------------------------------------------
(* expandAllTasks: the loop over the eligible tasks, one step per awaited
   expandTask call *)

MaxExpandAllTasks == 3

\* The tasks tasks.json may hold when expand-all is called: task i is pending
\* without a subtasks property, pending with an empty one, in progress with a
\* subtask, or done
ExpandAllTaskAt(id) ==
    { TaskWithoutSubtasks(id, "pending"),
      Task(id, "pending", <<>>),
      Task(id, "in-progress", <<Subtask(1, "pending")>>),
      Task(id, "done", <<>>) }

ExpandAllStores ==
    {NoTasksFile}
    \cup UNION { { [tasks |-> [i \in 1..n |-> pick[i]]] :
                     pick \in { f \in [1..n -> UNION { ExpandAllTaskAt(i) : i \in 1..n }] :
                                  \A i \in 1..n : f[i] \in ExpandAllTaskAt(i) } }
                 : n \in 0..MaxExpandAllTasks }

\* What the awaited expandTask call gives: a delegation signal, the expanded
\* task, a task of another id, nothing, or an exception
ExpandTaskResults == {"needsAgentDelegation", "task", "otherTask", "undefined", "threw"}

\* Faulty variant: tasks in progress are left out
EligiblePendingOnly(task, force) ==
    /\ task.status = "pending"
    /\ (~HasSubtasks(task) \/ Len(task.subtasks) = 0 \/ force)

\* The filter of tasksToExpand
Eligible(task, force) ==
    /\ (task.status = "pending" \/ task.status = "in-progress")
    /\ (~HasSubtasks(task) \/ Len(task.subtasks) = 0 \/ force)

\* The locals of expandAllTasks before the loop
ExpandAllLocals(tasksToExpand) ==
    [pc |-> "loop",
     tasksToExpand |-> tasksToExpand,
     next |-> 1,
     expandedCount |-> 0,
     failedCount |-> 0,
     delegationSignaledCount |-> 0,
     delegatedTaskIds |-> <<>>,
     visited |-> <<>>,
     results |-> <<>>,
     result |-> [success |-> FALSE]]

\* expandAllTasks is called: it reads tasks.json and filters the tasks; with no
\* task data it throws, with no eligible task it returns at once
ExpandAllCalled(force) ==
    /\ unitCall.fn = ""
    /\ unitCall' = [fn |-> "expandAllTasks", args |-> [data |-> tasksJson, force |-> force]]
    /\ unitResult' =
           IF ~HasField(tasksJson, "tasks")
           THEN [ExpandAllLocals(<<>>) EXCEPT !.pc = "thrown"]
           ELSE LET eligible(task) == Eligible(task, force)
                    tasksToExpand == SelectSeq(tasksJson.tasks, eligible)
                IN  IF Len(tasksToExpand) = 0
                    THEN [ExpandAllLocals(<<>>) EXCEPT
                              !.pc = "returned",
                              !.result = [success |-> TRUE, expandedCount |-> 0,
                                          failedCount |-> 0, skippedCount |-> 0,
                                          tasksToExpand |-> 0]]
                    ELSE ExpandAllLocals(tasksToExpand)
    /\ UNCHANGED <<serverVars, storeVars, running>>

\* The awaited expandTask call of the current task settles: one counter is
\* incremented, and after the last task the summary is returned.  A local
\* expansion has written the task's subtasks to tasks.json.
ExpandTaskSettles(result) ==
    /\ unitCall.fn = "expandAllTasks"
    /\ unitResult.pc = "loop"
    /\ LET locals == unitResult
           task == locals.tasksToExpand[locals.next]
           counted ==
               [locals EXCEPT
                    !.visited = Append(@, task.id),
                    !.results = Append(@, result),
                    !.next = @ + 1,
                    !.delegationSignaledCount =
                        IF result = "needsAgentDelegation" THEN @ + 1 ELSE @,
                    !.delegatedTaskIds =
                        IF result = "needsAgentDelegation" THEN Append(@, task.id) ELSE @,
                    !.expandedCount = IF result = "task" THEN @ + 1 ELSE @,
                    !.failedCount =
                        IF result \in {"otherTask", "undefined", "threw"} THEN @ + 1 ELSE @]
       IN  /\ unitResult' =
                  IF counted.next > Len(counted.tasksToExpand)
                  THEN [counted EXCEPT
                            !.pc = "returned",
                            !.result = [success |-> TRUE,
                                        expandedCount |-> counted.expandedCount,
                                        failedCount |-> counted.failedCount,
                                        delegationSignaledCount |->
                                            counted.delegationSignaledCount,
                                        skippedCount |-> 0,
                                        tasksToExpand |-> Len(counted.tasksToExpand),
                                        delegatedTaskIds |-> counted.delegatedTaskIds]]
                  ELSE counted
           /\ tasksJson' =
                  IF result = "task"
                  THEN [tasks |-> [i \in DOMAIN tasksJson.tasks |->
                                       IF tasksJson.tasks[i].id = task.id
                                       THEN Spread(tasksJson.tasks[i],
                                                   [subtasks |-> <<Subtask(1, "pending")>>])
                                       ELSE tasksJson.tasks[i]]]
                  ELSE tasksJson
    /\ UNCHANGED <<serverVars, saveResult, saverRuns, saverCall, unitCall, running>>

ExpandAllInit ==
    /\ initialized = TRUE
    /\ registeredTools = ToolNames
    /\ pendingAgentLLMInteractions = <<>>
    /\ promises = <<>>
    /\ dispatches = <<>>
    /\ postProcessors = <<>>
    /\ returning = Idle
    /\ callerReceived = <<>>
    /\ tasksJson \in ExpandAllStores
    /\ saveResult = NoResult
    /\ saverRuns = 0
    /\ saverCall = NoCall
    /\ unitCall = NoUnitCall
    /\ unitResult = Undefined
    /\ running = <<>>

ExpandAllNext ==
    \/ \E force \in BOOLEAN : ExpandAllCalled(force)
    \/ \E result \in ExpandTaskResults : ExpandTaskSettles(result)

ExpandAllSpec == ExpandAllInit /\ [][ExpandAllNext]_vars

----------------------------------------------------------------------------
\* What the properties below speak about

\* The record made by the k-th registration is in the registry
Outstanding(k) ==
    \E i \in DOMAIN pendingAgentLLMInteractions :
        pendingAgentLLMInteractions[i].promise = k

\* resolve or reject of the k-th record has been called
Settled(k) == k \in DOMAIN promises /\ Len(promises[k]) >= 1

\* The interactionId of the k-th registration
IdOf(k) == dispatches[k].args.interactionId

\* The registrations made under interactionId i
RegistrationsOf(i) == { k \in DOMAIN dispatches : IdOf(k) = i }

\* A later registration took the id of the k-th one
Replaced(k) == \E j \in DOMAIN dispatches : j > k /\ IdOf(j) = IdOf(k)

\* The agent's response has settled the k-th record
AnsweredByAgent(k) ==
    /\ Settled(k)
    /\ \/ promises[k][1].fn = "resolve"
       \/ /\ promises[k][1].value # Error("Failed to dispatch to agent_llm")
          /\ promises[k][1].value # Error("agent_llm tool failed during dispatch setup")

\* The Agent-to-Host calls that the wrapper takes for an agent callback
CallbackCalls ==
    { args \in AgentLLMArgs : IsAgentCallback(BrokerTool, AgentLLMExecute(args)) }

\* The delegation signals of either shape, each with a caller whose tool builds
\* it, whatever interactionId it carries
CallerSignals ==
    UNION { { <<caller, PendingInteractionResource(pi)>> :
                pi \in { [type |-> t, interactionId |-> i, delegatedCallDetails |-> d] :
                           t \in {"agent_llm", "other"}, i \in 0..MaxIds,
                           d \in {Undefined, caller.delegates} } }
            \cup { <<caller, PendingInteractionObject(
                                [type |-> "agent_llm", interactionId |-> i,
                                 delegatedCallDetails |-> caller.delegates])>> :
                     i \in Ids }
            : caller \in { c \in Callers : c.delegates # Undefined } }

\* A wrapped invocation starts to return in this step
InvocationStep == returning = Idle /\ returning' # Idle

\* Every registration made under interactionId i is over: settled, or replaced
\* by a later one that is settled
InteractionOver(i) ==
    /\ RegistrationsOf(i) # {}
    /\ \A k \in RegistrationsOf(i) : Settled(k) \/ Replaced(k)

----------------------------------------------------------------------------
\* C2 (single-shot resolution): of resolve and reject of a pending record at
\* most one is ever called, at most once; when the agent's response has been
\* acknowledged the record is out of the registry; and a further agent callback
\* with the id of an interaction that is over calls no resolver and is answered
\* with the unknown-interaction error.
SingleShotResolution ==
    /\ [](\A k \in DOMAIN promises : Len(promises[k]) <= 1)
    /\ [](\A i \in Ids : returning = AgentAck(i) => ~MapHas(pendingAgentLLMInteractions, i))
    /\ [][\A args \in CallbackCalls :
            (/\ InvocationStep
             /\ InteractionOver(args.interactionId)
             /\ InvokeAgentLLM(args))
            => /\ returning' = UnknownInteraction(args.interactionId)
               /\ promises' = promises]_vars

\* A second callback with the id of a resolved interaction has just been
\* answered with the error
SecondCallbackRefused ==
    \E k \in DOMAIN dispatches :
        /\ returning = UnknownInteraction(IdOf(k))
        /\ ~Replaced(k)
        /\ Len(promises[k]) = 1
        /\ promises[k][1].fn = "resolve"

\* C3 (insertion before dispatch): when the dispatch to agent_llm is initiated
\* the record is already in the registry under the signal's interactionId, so
\* an agent callback is never refused as unknown because the record of a started
\* dispatch has not been inserted yet: every registration of a refused id has
\* been settled or replaced.
InsertionBeforeDispatch ==
    /\ \A k \in DOMAIN dispatches : dispatches[k].recordStored
    /\ \A k \in DOMAIN dispatches :
           (dispatches[k].state = "inflight" /\ ~Settled(k) /\ ~Replaced(k)) => Outstanding(k)
    /\ \A i \in Ids :
           returning = UnknownInteraction(i)
               => \A k \in RegistrationsOf(i) : Settled(k) \/ Replaced(k)

\* The agent's response arrived, and was matched, while the dispatch was still
\* in flight
FastCallbackMatched ==
    \E k \in DOMAIN dispatches :
        /\ dispatches[k].state = "inflight"
        /\ returning = AgentAck(IdOf(k))
        /\ AnsweredByAgent(k)

\* C4 as the specification words it (signal pass-through): whenever a wrapped
\* tool returns a delegation signal, the wrapper returns that very value.
SignalPassThroughAlways ==
    [][\A cr \in CallerSignals :
          (InvocationStep /\ InvokeTool(cr[1], cr[2])) => returning' = cr[2]]_vars

\* C4 (signal pass-through), amended: whenever a wrapped tool returns a
\* delegation signal, the wrapper returns that very value, provided that a
\* signal of the embedded-resource shape carries an interactionId and agent_llm
\* is registered; the record is then in the registry and its promise is not
\* awaited.
SignalPassThrough ==
    [][\A cr \in CallerSignals :
          (/\ InvocationStep
           /\ IsDelegationSignal(cr[2])
                  => /\ ~MissingId(DetectedPendingInteractionObj(cr[2]).interactionId)
                     /\ BrokerTool \in registeredTools
           /\ InvokeTool(cr[1], cr[2]))
          => /\ returning' = cr[2]
             /\ IsDelegationSignal(cr[2])
                    => LET i == DetectedPendingInteractionObj(cr[2]).interactionId
                       IN  /\ MapHas(pendingAgentLLMInteractions', i)
                           /\ promises'[pendingAgentLLMInteractions'[i].promise] = <<>>]_vars

\* A delegation signal is being returned while its record is outstanding and
\* unsettled
SignalReturnedWhilePending ==
    /\ IsDelegationSignal(returning)
    /\ \E k \in DOMAIN dispatches :
           /\ IdOf(k) = DetectedPendingInteractionObj(returning).interactionId
           /\ Outstanding(k)
           /\ promises[k] = <<>>
           /\ dispatches[k].state = "inflight"

\* C5 (acknowledgement ordering): when the acknowledgement of an agent callback
\* is returned, the record has been removed from the registry and its resolve or
\* reject has been called with the agent's response; the saver it started may
\* still be running.
AckOrdering ==
    \A i \in Ids :
        returning = AgentAck(i)
            => /\ ~MapHas(pendingAgentLLMInteractions, i)
               /\ \E k \in RegistrationsOf(i) :
                      ~Replaced(k) /\ ~Outstanding(k) /\ AnsweredByAgent(k)

\* The acknowledgement is being returned while the saver started for the
\* interaction is still running
AckWhileSaverRuns ==
    \E i \in Ids, p \in DOMAIN postProcessors :
        /\ returning = AgentAck(i)
        /\ postProcessors[p].interactionId = i
        /\ postProcessors[p].state = "running"

\* The wrapper's own error results
IsWrapperError(value) == HasField(value, "isError") /\ value.isError

\* C8 (validation before insertion): when a detected delegation signal has no
\* interactionId, or agent_llm is not registered, the wrapper returns a
\* structured error and creates no record, no promise and no dispatch; so the
\* registry never holds a record without an id, nor any record while agent_llm
\* is not registered.
ValidationBeforeInsertion ==
    /\ [](/\ \A i \in DOMAIN pendingAgentLLMInteractions : ~MissingId(i)
          /\ BrokerTool \notin registeredTools
                 => pendingAgentLLMInteractions = <<>> /\ promises = <<>> /\ dispatches = <<>>)
    /\ [][\A cr \in CallerSignals :
            (/\ InvocationStep
             /\ IsDelegationSignal(cr[2])
             /\ \/ MissingId(DetectedPendingInteractionObj(cr[2]).interactionId)
                \/ BrokerTool \notin registeredTools
             /\ InvokeTool(cr[1], cr[2]))
            => /\ IsWrapperError(returning')
               /\ returning' # cr[2]
               /\ UNCHANGED <<pendingAgentLLMInteractions, promises, dispatches,
                              postProcessors>>]_vars

\* The error for a signal without interactionId is being returned while the
\* record of an earlier delegation is outstanding
SignalWithoutIdRefused ==
    /\ \E caller \in Callers :
           returning = createErrorResponse(
                           "Internal error: pendingInteraction missing interactionId for",
                           caller.toolName)
    /\ pendingAgentLLMInteractions # <<>>

\* C9 (unknown interaction): an agent callback whose interactionId is not in the
\* registry is answered with the unknown-interaction error and changes neither
\* the registry, nor any promise, dispatch or saver.
UnknownInteractionRefused ==
    [][\A args \in CallbackCalls :
          (/\ InvocationStep
           /\ ~MapHas(pendingAgentLLMInteractions, args.interactionId)
           /\ InvokeAgentLLM(args))
          => /\ returning' = UnknownInteraction(args.interactionId)
             /\ UNCHANGED <<pendingAgentLLMInteractions, promises, dispatches,
                            postProcessors>>]_vars

\* A callback for an id that was never registered is being refused while the
\* record of another interaction is outstanding
NeverRegisteredIdRefused ==
    \E i \in Ids :
        /\ returning = UnknownInteraction(i)
        /\ RegistrationsOf(i) = {}
        /\ pendingAgentLLMInteractions # <<>>

\* C10 (correlation): an agent callback with interactionId X settles the promise
\* of the record stored under X and of no other, removes that record and no
\* other, and starts a saver, if any, with the tool name, the arguments, the
\* project root and the details of that record.
Correlation ==
    [][\A args \in CallbackCalls :
          (/\ InvocationStep
           /\ MapHas(pendingAgentLLMInteractions, args.interactionId)
           /\ InvokeAgentLLM(args))
          => LET X == args.interactionId
                 record == pendingAgentLLMInteractions[X]
             IN  /\ DOMAIN pendingAgentLLMInteractions' = DOMAIN pendingAgentLLMInteractions \ {X}
                 /\ \A j \in DOMAIN pendingAgentLLMInteractions' :
                        pendingAgentLLMInteractions'[j] = pendingAgentLLMInteractions[j]
                 /\ \A k \in DOMAIN promises :
                        promises'[k] = IF k = record.promise
                                       THEN Append(promises[k], promises'[k][Len(promises'[k])])
                                       ELSE promises[k]
                 /\ promises'[record.promise][1].fn = "resolve"
                        => promises'[record.promise][1].value.tagInfo = RecoveredTagInfo(record)
                 /\ \/ postProcessors' = postProcessors
                    \/ \E started \in {postProcessors'[Len(postProcessors')]} :
                           /\ postProcessors' = Append(postProcessors, started)
                           /\ started.interactionId = X
                           /\ started.promise = record.promise
                           /\ started.originalToolName = record.originalToolName
                           /\ started.saver = PostProcessorFor(record, started.args.agentOutput)
                           /\ started.args.projectRoot =
                                  ProjectRootOf(record.originalToolArgs, record.session)
                           /\ HasField(started.args, "originalToolArgs")
                                  => started.args.originalToolArgs = record.originalToolArgs
                           /\ HasField(started.args, "delegatedRequestParams")
                                  => started.args.delegatedRequestParams =
                                         record.delegatedCallDetails.requestParameters]_vars

\* The response to one of two outstanding interactions of different tools has
\* just been matched, and its saver started, while the other is still pending
MatchedAmongTwo ==
    \E i \in Ids, j \in Ids, p \in DOMAIN postProcessors :
        /\ i # j
        /\ returning = AgentAck(i)
        /\ MapHas(pendingAgentLLMInteractions, j)
        /\ postProcessors[p].interactionId = i
        /\ postProcessors[p].state = "running"
        /\ postProcessors[p].originalToolName # pendingAgentLLMInteractions[j].originalToolName

\* The dispatch of the k-th registration failed: its promise rejected, or
\* agent_llm returned something other than a result with status
\* pending_agent_llm_action
DispatchFailed(k) ==
    \/ dispatches[k].state = "rejected"
    \/ /\ dispatches[k].state = "fulfilled"
       /\ LET agentDirectiveResult == AgentLLMExecute(dispatches[k].args)
          IN  ~(/\ HasField(agentDirectiveResult, "status")
                /\ agentDirectiveResult.status = "pending_agent_llm_action")

\* C7 (dispatch failure): once the dispatch of a registration has failed, the
\* record is out of the registry and, having been present, has been rejected.
DispatchFailureRejects ==
    \A k \in DOMAIN dispatches :
        (DispatchFailed(k) /\ ~Replaced(k)) => (~Outstanding(k) /\ Settled(k))

\* C6 (TTL expiry): a record whose dispatch went through and that the agent does
\* not answer is eventually removed and rejected by the expiry sweep (the
\* passing of delegationTtlMs is the "eventually"), however long the agent and
\* the callers stay silent.
ExpiryRemovesAndRejects ==
    \A k \in 1..MaxInteractions :
        (Outstanding(k) /\ dispatches[k].state = "fulfilled")
            ~> /\ ~Outstanding(k)
               /\ \/ AnsweredByAgent(k)
                  \/ Replaced(k)
                  \/ /\ Settled(k)
                     /\ promises[k][1] = [fn |-> "reject",
                                          value |-> Error("ERR_INTERACTION_TIMEOUT")]

\* C1 (registry balance): a record, once removed, is never put back, every
\* record that is inserted is eventually removed, and so the registry is
\* eventually empty for good once the callers stop delegating.
RegistryBalance ==
    /\ [][\A k \in DOMAIN promises : ~Outstanding(k) => ~Outstanding(k)']_vars
    /\ \A k \in 1..MaxInteractions : Outstanding(k) ~> ~Outstanding(k)
    /\ (<>[](Len(promises) = MaxInteractions)) => <>[](pendingAgentLLMInteractions = <<>>)
----------------------------------------------------------------------------
\* The state of the k-th interaction, read off the registry, its resolvers and
\* its dispatch
InteractionState(k) ==
    IF k \notin DOMAIN dispatches THEN "INIT"
    ELSE IF Settled(k) THEN
        (IF promises[k][1].fn = "resolve" THEN "COMPLETED" ELSE "FAILED")
    ELSE IF dispatches[k].state = "inflight" THEN "DIRECTIVE_DISPATCHING"
    ELSE "AWAITING_AGENT"

\* The transitions of the interaction state machine
InteractionTransitions ==
    { <<"INIT", "DIRECTIVE_DISPATCHING">>,
      <<"DIRECTIVE_DISPATCHING", "AWAITING_AGENT">>,
      <<"DIRECTIVE_DISPATCHING", "FAILED">>,
      <<"AWAITING_AGENT", "COMPLETED">>,
      <<"AWAITING_AGENT", "FAILED">>,
      <<"AWAITING_AGENT", "EXPIRED">> }

\* agent_llm answered the k-th dispatch with the directive
BrokerReturnedPending(k) ==
    LET agentDirectiveResult == AgentLLMExecute(dispatches[k].args)
    IN  /\ HasField(agentDirectiveResult, "status")
        /\ agentDirectiveResult.status = "pending_agent_llm_action"

\* C11 (interaction state machine): each interaction makes only the
\* transitions INIT -> DIRECTIVE_DISPATCHING -> AWAITING_AGENT -> COMPLETED |
\* FAILED | EXPIRED and DIRECTIVE_DISPATCHING -> FAILED; AWAITING_AGENT is
\* entered only when agent_llm returned pending_agent_llm_action; a terminal
\* state has deleted the record; only COMPLETED has started a post-processor.
InteractionStateMachine ==
    /\ [][\A k \in 1..MaxInteractions :
            \/ InteractionState(k)' = InteractionState(k)
            \/ /\ <<InteractionState(k), InteractionState(k)'>> \in InteractionTransitions
               /\ InteractionState(k)' = "AWAITING_AGENT" => BrokerReturnedPending(k)]_vars
    /\ [](\A k \in DOMAIN dispatches :
            InteractionState(k) \in {"COMPLETED", "FAILED", "EXPIRED"} => ~Outstanding(k))
    /\ [](\A p \in DOMAIN postProcessors :
            InteractionState(postProcessors[p].promise) = "COMPLETED")


\* C12 (agent-reported error): an agent callback with status error for an
\* interaction whose record is in the registry calls reject, and never resolve,
\* of that record, with errorDetails when the agent gave them, else with an
\* Error of the textual payload, else with a generic Error; it starts no
\* post-processor, settles no other record, deletes the record and returns the
\* acknowledgment.
AgentErrorRejects ==
    [][\A args \in CallbackCalls :
          (/\ InvocationStep
           /\ args.agentLLMResponse.status = "error"
           /\ MapHas(pendingAgentLLMInteractions, args.interactionId)
           /\ InvokeAgentLLM(args))
          => LET k == pendingAgentLLMInteractions[args.interactionId].promise
                 details == args.agentLLMResponse.errorDetails
                 payload == args.agentLLMResponse.data
                 reason == IF details # Undefined THEN details
                           ELSE IF payload.t = "string" THEN Error(payload.v)
                           ELSE Error("Agent LLM call failed")
             IN  /\ promises'[k] = Append(promises[k], [fn |-> "reject", value |-> reason])
                 /\ \A j \in DOMAIN promises : j # k => promises'[j] = promises[j]
                 /\ postProcessors' = postProcessors
                 /\ ~MapHas(pendingAgentLLMInteractions', args.interactionId)
                 /\ returning' = AgentAck(args.interactionId)]_vars

\* The agent reported an error with a textual payload only, and has been
\* acknowledged; the record is rejected with that text and is gone
AgentTextErrorAcked ==
    \E k \in DOMAIN dispatches :
        /\ returning = AgentAck(IdOf(k))
        /\ promises[k] = <<[fn |-> "reject", value |-> Error("extra context")]>>
        /\ ~Outstanding(k)
        /\ \A p \in DOMAIN postProcessors : postProcessors[p].promise # k


\* The post-processors started for the k-th record
PostProcessorsOf(k) == { p \in DOMAIN postProcessors : postProcessors[p].promise = k }

AckIndependence ==
    /\ [][\A args \in CallbackCalls :
            (/\ InvocationStep
             /\ MapHas(pendingAgentLLMInteractions, args.interactionId)
             /\ InvokeAgentLLM(args))
            => /\ returning' = AgentAck(args.interactionId)
               /\ \A p \in DOMAIN postProcessors' :
                      p \notin DOMAIN postProcessors => postProcessors'[p].state = "running"]_vars
    /\ [][(\E p \in DOMAIN postProcessors :
              postProcessors[p].state = "running" /\ postProcessors'[p].state = "settled")
          => UNCHANGED <<returning, pendingAgentLLMInteractions, promises, dispatches>>]_vars

\* The saver of an acknowledged interaction has settled after the
\* acknowledgment was sent; the record is gone and stays resolved
SaverSettledAfterAck ==
    \E p \in DOMAIN postProcessors :
        /\ postProcessors[p].state = "settled"
        /\ returning = Idle
        /\ InteractionState(postProcessors[p].promise) = "COMPLETED"
        /\ ~Outstanding(postProcessors[p].promise)


\* C15 (delivery to the original caller): what the resolver of a record
\* delivers (resolve's value or reject's error) is eventually received by the
\* caller of the delegated command.
ResolverDeliversToCaller ==
    \A k \in 1..MaxInteractions :
        Settled(k) ~> (/\ Settled(k)
                       /\ \E j \in DOMAIN callerReceived[k] :
                              callerReceived[k][j] = promises[k][1].value)


\* C16 (post-processor coverage): for every delegating command, a success
\* callback that carries a payload, for a record that has the project root, the
\* task id and the hints, starts exactly one post-processor.
PostProcessorCoverage ==
    [][\A args \in CallbackCalls :
          (/\ InvocationStep
           /\ args.agentLLMResponse.status = "success"
           /\ args.agentLLMResponse.errorDetails = Undefined
           /\ args.agentLLMResponse.data # Undefined
           /\ MapHas(pendingAgentLLMInteractions, args.interactionId)
           /\ LET record == pendingAgentLLMInteractions[args.interactionId]
              IN  /\ record.originalToolName \in DelegatingCommands
                  /\ ProjectRootOf(record.originalToolArgs, record.session) # ""
                  /\ record.originalToolArgs.id # ""
                  /\ IsNumberHint(record.delegatedCallDetails.requestParameters, "nextSubtaskId")
                  /\ IsNumberHint(record.delegatedCallDetails.requestParameters,
                                  "numSubtasksForAgent")
           /\ InvokeAgentLLM(args))
          => Len(postProcessors') = Len(postProcessors) + 1]_vars


\* The keys of requestParameters that a saver's arguments carry
PassedHints(args) ==
    IF HasField(args, "delegatedRequestParams") THEN DOMAIN args.delegatedRequestParams
    ELSE IF HasField(args, "originalTaskDetails") THEN {"numSubtasksForAgent", "nextSubtaskId"}
    ELSE {}

\* C17 (hint preservation): every key that requestParameters held when the
\* directive was created is in the stored record's delegatedCallDetails, and
\* is passed to the post-processor that the callback starts.
HintsReachPostProcessor ==
    /\ \A i \in DOMAIN pendingAgentLLMInteractions :
           pendingAgentLLMInteractions[i].delegatedCallDetails =
               dispatches[pendingAgentLLMInteractions[i].promise].args.delegatedCallDetails
    /\ \A p \in DOMAIN postProcessors :
           LET requestParameters ==
                   dispatches[postProcessors[p].promise].args.delegatedCallDetails.requestParameters
           IN  DOMAIN requestParameters \subseteq PassedHints(postProcessors[p].args)


\* The tasks that tasks.json holds (none when the file is missing)
StoreTasks(store) == IF HasField(store, "tasks") THEN store.tasks ELSE <<>>

\* The properties of a task other than its list of subtasks
OwnFields(task) == [f \in DOMAIN task \ {"subtasks"} |-> task[f]]

\* task.subtasks || []
SubtasksOf(task) == IF HasSubtasks(task) THEN task.subtasks ELSE <<>>

\* The completed tasks of `before` are in `after` with the same properties
CompletedTasksKept(before, after) ==
    \A i \in DOMAIN before :
        IsCompleted(before[i])
            => \E j \in DOMAIN after : OwnFields(after[j]) = OwnFields(before[i])

\* The completed subtasks of `before` are in `after`, under the same task, as they were
CompletedSubtasksKept(before, after) ==
    \A i \in DOMAIN before :
        \A s \in DOMAIN SubtasksOf(before[i]) :
            IsCompleted(before[i].subtasks[s])
                => \E j \in DOMAIN after :
                       /\ after[j].id = before[i].id
                       /\ \E r \in DOMAIN SubtasksOf(after[j]) :
                              after[j].subtasks[r] = before[i].subtasks[s]

\* C18 (completed-item protection): over every run of a post-processor, with
\* any agent payload, every task and every subtask whose status was done or
\* completed before the run is unchanged after it.
CompletedItemsProtected ==
    [][/\ CompletedTasksKept(StoreTasks(tasksJson), StoreTasks(tasksJson'))
       /\ CompletedSubtasksKept(StoreTasks(tasksJson), StoreTasks(tasksJson'))]_vars


\* The task or subtask of the store that an id names, and whether it is completed
TargetCompleted(tasks, id) ==
    LET parentIndex == IndexOfId(tasks, id.parent)
    IN  /\ parentIndex # 0
        /\ IF id.sub = 0 THEN IsCompleted(tasks[parentIndex])
           ELSE LET subIndex == IndexOfId(SubtasksOf(tasks[parentIndex]), id.sub)
                IN  subIndex # 0 /\ IsCompleted(tasks[parentIndex].subtasks[subIndex])

\* C19 (completed subtasks survive a full update): when saveUpdatedTaskFromAgent
\* runs a non-append update, every subtask that was done or completed before
\* is present afterwards exactly as it was, whatever the agent's
\* payload did with it; and when the target itself is done or completed
\* tasks.json is not written.
CompletedSubtasksSurvive ==
    [][(saverCall'.saver = "saveUpdatedTaskFromAgent" /\ ~saverCall'.append)
           => LET before == StoreTasks(tasksJson)
                  after == StoreTasks(tasksJson')
              IN  /\ TargetCompleted(before, saverCall'.id) => tasksJson' = tasksJson
                  /\ \A i \in DOMAIN before :
                         \A s \in DOMAIN SubtasksOf(before[i]) :
                             IsCompleted(before[i].subtasks[s])
                                 => /\ i \in DOMAIN after
                                    /\ after[i].id = before[i].id
                                    /\ \E r \in DOMAIN SubtasksOf(after[i]) :
                                           after[i].subtasks[r] = before[i].subtasks[s]]_vars


\* C20 (id-collision refusal): when saveNewTaskFromAgent runs with a newTaskId
\* that a task of the store already has, it returns a failure and tasks.json
\* is unchanged; when it succeeds, exactly one task with id newTaskId has
\* been added and the other tasks are as they were.
NewTaskRefusedOrAdded ==
    [][saverCall'.saver = "saveNewTaskFromAgent"
           => LET before == StoreTasks(tasksJson)
                  after == StoreTasks(tasksJson')
                  newTaskId == saverCall'.id.parent
              IN  /\ (\E i \in DOMAIN before : before[i].id = newTaskId)
                         => ~saveResult'.success /\ tasksJson' = tasksJson
                  /\ saveResult'.success
                         => /\ Cardinality({ j \in DOMAIN after : after[j].id = newTaskId }) = 1
                            /\ Len(after) = Len(before) + 1
                            /\ WithoutId(after, newTaskId) = before]_vars

\* A task was added by one run of saveNewTaskFromAgent, and a second run with
\* the id of a stored task has been refused
NewTaskAddedThenRefused ==
    /\ saverRuns = 2
    /\ saverCall.saver = "saveNewTaskFromAgent"
    /\ saveResult.error = "Task ID already exists. Cannot add task."
    /\ \E j \in DOMAIN StoreTasks(tasksJson) :
           /\ HasField(tasksJson.tasks[j], "priority")
           /\ tasksJson.tasks[j].id = saverCall.id.parent


\* C22 (both signal shapes): a tool result that is the plain object
\* {needsAgentDelegation: true, pendingInteraction} leads the wrapper to the
\* outcome of the embedded resource that carries the same pendingInteraction:
\* the record is inserted under its interactionId and the directive is dispatched.
BothShapesAccepted ==
    [][\A cr \in CallerSignals :
          (/\ InvocationStep
           /\ HasField(cr[2], "needsAgentDelegation")
           /\ BrokerTool \in registeredTools
           /\ Len(promises) < MaxInteractions
           /\ InvokeTool(cr[1], cr[2]))
          => LET pi == cr[2].pendingInteraction
             IN  /\ MapHas(pendingAgentLLMInteractions', pi.interactionId)
                 /\ pendingAgentLLMInteractions'[pi.interactionId].delegatedCallDetails
                        = pi.delegatedCallDetails
                 /\ Len(dispatches') = Len(dispatches) + 1]_vars

\* C23 (absence is an error): a callback for an outstanding interaction with
\* status success and no data, or with status error and no errorDetails,
\* rejects the record, does not resolve it, and starts no post-processor.
AbsenceIsError ==
    [][\A args \in CallbackCalls :
          (/\ InvocationStep
           /\ MapHas(pendingAgentLLMInteractions, args.interactionId)
           /\ \/ /\ args.agentLLMResponse.status = "success"
                 /\ args.agentLLMResponse.data = Undefined
              \/ /\ args.agentLLMResponse.status = "error"
                 /\ args.agentLLMResponse.errorDetails = Undefined
           /\ InvokeAgentLLM(args))
          => LET k == pendingAgentLLMInteractions[args.interactionId].promise
             IN  /\ Len(promises'[k]) = Len(promises[k]) + 1
                 /\ promises'[k][Len(promises'[k])].fn = "reject"
                 /\ postProcessors' = postProcessors]_vars

AmbiguousArgsRefused ==
    [][\A args \in AgentLLMArgs :
          (/\ InvocationStep
           /\ args.delegatedCallDetails # Undefined
           /\ args.agentLLMResponse # Undefined
           /\ InvokeAgentLLM(args))
          => /\ HasField(returning', "isError")
             /\ returning'.isError
             /\ ~HasField(returning', "toolResponseSource")
             /\ promises' = promises]_vars

\* C26 (broker protocol errors): agent_llm given agentLLMResponse without
\* interactionId, or neither form, returns an error result (isError) that is
\* no directive and no completion; the wrapper passes it through and the
\* registry, the resolvers, the dispatches and the savers are untouched.
BrokerProtocolErrors ==
    [][\A args \in AgentLLMArgs :
          (/\ InvocationStep
           /\ args.delegatedCallDetails = Undefined
           /\ args.agentLLMResponse = Undefined \/ MissingId(args.interactionId)
           /\ InvokeAgentLLM(args))
          => /\ HasField(returning', "isError")
             /\ returning'.isError
             /\ ~HasField(returning', "toolResponseSource")
             /\ returning'.content[1].type = "text"
             /\ pendingAgentLLMInteractions' = pendingAgentLLMInteractions
             /\ promises' = promises
             /\ dispatches' = dispatches
             /\ postProcessors' = postProcessors]_vars

\* The agent answered without an interactionId while an interaction was
\* outstanding: it is being returned the error, and the record is still there
MissingIdRefusedWhileOutstanding ==
    /\ returning = createErrorResponse("agent_llm: Agent response is missing interactionId.", "")
    /\ \E k \in DOMAIN promises : Outstanding(k) /\ promises[k] = <<>>

\* C27 (host-to-agent form): every agent_llm call with delegatedCallDetails
\* returns toolResponseSource taskmaster_to_agent, status
\* pending_agent_llm_action, llmRequestForAgent equal to
\* delegatedCallDetails.requestParameters, and one interaction id both as
\* interactionId and as pendingInteractionSignalToAgent.interactionId: the
\* given interactionId, or a generated one when none is given.
HostToAgentForm ==
    (unitCall.fn = "agent_llm.execute" /\ unitCall.args.delegatedCallDetails # Undefined)
          => /\ HasField(unitResult, "toolResponseSource")
             /\ unitResult.toolResponseSource = "taskmaster_to_agent"
             /\ unitResult.status = "pending_agent_llm_action"
             /\ unitResult.llmRequestForAgent
                    = unitCall.args.delegatedCallDetails.requestParameters
             /\ unitResult.interactionId = unitResult.pendingInteractionSignalToAgent.interactionId
             /\ IF MissingId(unitCall.args.interactionId)
                THEN unitResult.interactionId \notin 0..MaxIds
                ELSE unitResult.interactionId = unitCall.args.interactionId

\* A directive was returned under the interactionId that the call gave
DirectiveUnderGivenId ==
    /\ unitCall.fn = "agent_llm.execute"
    /\ unitCall.args.delegatedCallDetails = UpdateTasksCall
    /\ unitCall.args.interactionId = 2
    /\ unitResult.interactionId = 2
    /\ unitResult.llmRequestForAgent = UpdateTasksCall.requestParameters

\* C28 (agent-to-host form): every agent_llm call with agentLLMResponse and
\* interactionId, and no delegatedCallDetails, returns toolResponseSource
\* agent_to_taskmaster, the same interactionId, status llm_response_completed
\* when agentLLMResponse.status is success and llm_response_error otherwise,
\* finalLLMOutput equal to agentLLMResponse.data and error equal to
\* agentLLMResponse.errorDetails.
AgentToHostForm ==
    (/\ unitCall.fn = "agent_llm.execute"
     /\ unitCall.args.delegatedCallDetails = Undefined
     /\ unitCall.args.agentLLMResponse # Undefined
     /\ ~MissingId(unitCall.args.interactionId))
          => /\ HasField(unitResult, "toolResponseSource")
             /\ unitResult.toolResponseSource = "agent_to_taskmaster"
             /\ unitResult.interactionId = unitCall.args.interactionId
             /\ unitResult.status = (IF unitCall.args.agentLLMResponse.status = "success"
                                     THEN "llm_response_completed" ELSE "llm_response_error")
             /\ unitResult.finalLLMOutput = unitCall.args.agentLLMResponse.data
             /\ unitResult.error = unitCall.args.agentLLMResponse.errorDetails

\* An error response with errorDetails and no data was forwarded
ErrorDetailsForwarded ==
    /\ unitCall.fn = "agent_llm.execute"
    /\ unitCall.args.agentLLMResponse # Undefined
    /\ unitCall.args.agentLLMResponse.status = "error"
    /\ HasField(unitResult, "toolResponseSource")
    /\ unitResult.status = "llm_response_error"
    /\ unitResult.error = Obj("rate_limit_error")
    /\ unitResult.finalLLMOutput = Undefined

\* C29 (delegating provider): generateText, streamText and generateObject
\* return, for every parameter set, a delegation token with a non-empty
\* interactionId whose details carry the caller's modelId, messages, maxTokens,
\* temperature and baseURL unchanged (and schema and objectName for
\* generateObject) and apiKey null; validateAuth returns true for every input.
DelegatingProvider ==
    /\ unitCall.fn \in {"generateText", "streamText", "generateObject"}
          => /\ unitResult.type = "agent_llm_delegation"
             /\ ~MissingId(unitResult.interactionId)
             /\ \A k \in {"modelId", "messages", "maxTokens", "temperature", "baseURL"} :
                    unitResult.details[k] = unitCall.args[k]
             /\ unitCall.fn = "generateObject"
                    => \A k \in {"schema", "objectName"} :
                           unitResult.details[k] = unitCall.args[k]
             /\ unitResult.details.apiKey = Null
    /\ unitCall.fn = "validateAuth" => unitResult = True

\* C30 (expansion numbering): a successful run of the expand-task saver whose
\* directive carried nextSubtaskId = n and whose agent payload holds k subtasks
\* leaves the parent's earlier subtasks in place and appends k subtasks with
\* the ids n, n+1, ..., n+k-1, whatever ids the payload carried.
ExpansionNumbering ==
    [][(saverCall'.saver = "saveExpandedTaskData" /\ saveResult'.success)
          => LET before == StoreTasks(tasksJson)
                 after == StoreTasks(tasksJson')
                 i == IndexOfId(before, saverCall'.id.parent)
                 earlier == SubtasksOf(before[i])
                 now == SubtasksOf(after[i])
                 n == saverCall'.nextSubtaskId
                 k == saverCall'.numReturned
             IN  /\ Len(now) = Len(earlier) + k
                 /\ SubSeq(now, 1, Len(earlier)) = earlier
                 /\ \A j \in 1..k : now[Len(earlier) + j].id = n + j - 1]_vars

\* C21 (atomic read-modify-write, no lost update): whatever the interleaving
\* of the savers of different interactions, once all of them have settled the
\* store holds what every saver that reported success added to it.
NoLostUpdate ==
    (\A q \in DOMAIN running : running[q].pc = "done")
        => \A p \in DOMAIN running :
               running[p].result.success => running[p].added \subseteq StoreItems(tasksJson)

\* The task or subtask that an id names in a list of tasks (the id is there)
TargetOf(tasks, id) ==
    LET parentIndex == IndexOfId(tasks, id.parent)
    IN  IF id.sub = 0 THEN tasks[parentIndex]
        ELSE tasks[parentIndex].subtasks[IndexOfId(tasks[parentIndex].subtasks, id.sub)]

\* The list of tasks with that task or subtask replaced by `item`
ReplaceTarget(tasks, id, item) ==
    LET parentIndex == IndexOfId(tasks, id.parent)
    IN  IF id.sub = 0 THEN [tasks EXCEPT ![parentIndex] = item]
        ELSE [tasks EXCEPT
                 ![parentIndex].subtasks[IndexOfId(tasks[parentIndex].subtasks, id.sub)] = item]

\* C31 (append mode): when the original update_task arguments carry
\* append = true and the saver reports that it updated the target, the
\* target's details are the previous details followed by one timestamped
\* block, whatever the type of the agent's payload, and every other field of
\* the target, every subtask of the task and every other task are unchanged.
AppendModeOnlyAppends ==
    [][(/\ saverCall'.saver = "saveUpdatedTaskFromAgent"
        /\ saverCall'.append
        /\ saveResult'.success
        /\ saveResult'.updated)
          => LET before == StoreTasks(tasksJson)
                 after == StoreTasks(tasksJson')
                 id == saverCall'.id
                 old == TargetOf(before, id)
                 new == TargetOf(after, id)
                 n == Len(old.details)
             IN  /\ Len(new.details) = n + 1
                 /\ SubSeq(new.details, 1, n) = old.details
                 /\ new.details[n + 1].kind = "info"
                 /\ after = ReplaceTarget(before, id, [old EXCEPT !.details = new.details])]_vars

\* The ids of the tasks in a list
IdsOf(tasks) == { tasks[i].id : i \in DOMAIN tasks }

\* C32 (bulk update): for an agent payload that is an array of task objects,
\* the update-many-tasks saver updates every listed task that is in the store
\* and is not done or completed, keeping that task's completed subtasks, leaves
\* the listed tasks that are done or completed as they are, and reports the
\* listed ids that are not in the store without aborting.
BulkUpdateReportsAndGoesOn ==
    [][(/\ unitCall'.fn = "saveMultipleTasksFromAgent"
        /\ unitCall'.args.output.t = "array"
        /\ \A j \in DOMAIN unitCall'.args.output.tasks :
               /\ HasField(unitCall'.args.output.tasks[j], "id")
               /\ HasField(unitCall'.args.output.tasks[j], "title")
        /\ HasField(tasksJson, "tasks"))
          => LET listed == unitCall'.args.output.tasks
                 before == tasksJson.tasks
                 after == StoreTasks(tasksJson')
             IN  /\ Len(after) = Len(before)
                 /\ \A i \in DOMAIN before :
                        before[i].id \in IdsOf(listed)
                            => IF IsCompleted(before[i]) THEN after[i] = before[i]
                               ELSE LET agentTask == AgentTaskOfId(listed, before[i].id)
                                    IN  /\ \A f \in DOMAIN agentTask \ {"id", "subtasks"} :
                                               after[i][f] = agentTask[f]
                                        /\ after[i].id = before[i].id
                                        /\ \A s \in DOMAIN SubtasksOf(before[i]) :
                                               IsCompleted(before[i].subtasks[s])
                                                   => \E r \in DOMAIN SubtasksOf(after[i]) :
                                                          after[i].subtasks[r] = before[i].subtasks[s]
                 /\ IdsOf(listed) \ IdsOf(before) \subseteq unitResult'.mentions]_vars

----------------------------------------------------------------------------
\* The entries of a list
EntriesOf(list) == { list[i] : i \in DOMAIN list }

\* How many times an entry occurs in a list of entries
Occurrences(list, entry) == Cardinality({ i \in DOMAIN list : list[i] = entry })

\* Two lists hold the same entries, each as many times
SameEntries(a, b) ==
    \A entry \in EntriesOf(a) \cup EntriesOf(b) : Occurrences(a, entry) = Occurrences(b, entry)

\* The call just made was for specific ids or a range, over a valid report
MergingCall ==
    /\ unitCall.fn = "saveComplexityReportFromAgent"
    /\ unitResult.result.success
    /\ unitCall.args.existing.exists
    /\ unitCall.args.existing.valid
    /\ \/ unitCall.args.tool.ids # ""
       \/ unitCall.args.tool.from # Undefined
       \/ unitCall.args.tool.to # Undefined

\* C33: when the analyze-complexity call named ids or a from/to range and a
\* valid report exists, the saved report holds every existing entry whose
\* taskId the agent did not analyze again together with all of the agent's
\* entries; in every other case it holds exactly the agent's entries.
ReportMerge ==
    (unitCall.fn = "saveComplexityReportFromAgent" /\ unitResult.result.success)
        => LET agent == unitCall.args.output.entries
               existing == unitCall.args.existing.complexityAnalysis
               saved == unitResult.report.complexityAnalysis
               agentIds == { agent[i].taskId : i \in DOMAIN agent }
               kept(entry) == entry.taskId \notin agentIds
           IN  /\ unitResult.report.written
               /\ IF MergingCall
                  THEN /\ \A entry \in EntriesOf(saved) \cup EntriesOf(existing) \cup EntriesOf(agent) :
                              Occurrences(saved, entry)
                                  = Occurrences(agent, entry)
                                    + (IF kept(entry) THEN Occurrences(existing, entry) ELSE 0)
                  ELSE SameEntries(saved, agent)

\* A merge that kept one existing entry and replaced another
OneKeptOneReplaced ==
    /\ MergingCall
    /\ unitCall.args.existing.complexityAnalysis = <<Analysis(1, 5), Analysis(2, 7)>>
    /\ unitCall.args.output.entries = <<Analysis(1, 9)>>
    /\ unitResult.report.complexityAnalysis = <<Analysis(1, 9), Analysis(2, 7)>>

----------------------------------------------------------------------------
\* C34 (one record per id): the registry holds at most one record per
\* interactionId; a signal whose interactionId is already outstanding puts its
\* record in the place of the earlier one, and from then on resolve and reject
\* of the earlier record are never called: whatever a later callback or
\* dispatch handler does, it does to the newer record.
OneRecordPerId ==
    /\ [](\A k \in DOMAIN dispatches : Replaced(k) => ~Outstanding(k))
    /\ [][\A k \in DOMAIN promises :
              (k \in DOMAIN dispatches /\ Replaced(k)) => promises'[k] = promises[k]]_vars

\* The first record was outstanding and unsettled when the second took its
\* id; the agent's callback has settled the second and the first is untouched
ReplacedRecordLeftAlone ==
    \E k \in DOMAIN dispatches, j \in DOMAIN dispatches :
        /\ k < j
        /\ IdOf(j) = IdOf(k)
        /\ promises[k] = <<>>
        /\ AnsweredByAgent(j)
        /\ returning = AgentAck(IdOf(j))

----------------------------------------------------------------------------
\* A record is put into the registry in this step (under a new id, or in the
\* place of the record of an id)
RecordInserted ==
    \E i \in DOMAIN pendingAgentLLMInteractions' :
        \/ i \notin DOMAIN pendingAgentLLMInteractions
        \/ pendingAgentLLMInteractions'[i] # pendingAgentLLMInteractions[i]

\* C35 (no re-entrant registration): what the nested invocation of agent_llm
\* by a dispatch returns is neither a delegation signal nor an agent callback,
\* so the wrapper passes it through; records are inserted and dispatches are
\* started only by the invocation that returns a delegation signal to its
\* caller, one record and one dispatch for it; and the handler of a dispatch
\* runs once, after which the dispatch never changes again.
NoReentrantRegistration ==
    /\ [](\A k \in DOMAIN dispatches :
              NestedPassThrough(AgentLLMExecute(dispatches[k].args)))
    /\ [](DOMAIN dispatches = DOMAIN promises)
    /\ [][(RecordInserted \/ DOMAIN dispatches' # DOMAIN dispatches)
              => /\ InvocationStep
                 /\ IsDelegationSignal(returning')
                 /\ DOMAIN dispatches' = DOMAIN dispatches \cup {Len(dispatches) + 1}
                 /\ dispatches'[Len(dispatches) + 1].state = "inflight"
                 /\ \A k \in DOMAIN dispatches : dispatches'[k] = dispatches[k]
                 /\ Cardinality({ i \in DOMAIN pendingAgentLLMInteractions' :
                                    \/ i \notin DOMAIN pendingAgentLLMInteractions
                                    \/ pendingAgentLLMInteractions'[i]
                                           # pendingAgentLLMInteractions[i] }) = 1]_vars
    /\ [][\A k \in DOMAIN dispatches :
              /\ dispatches[k].state # "inflight" => dispatches'[k] = dispatches[k]
              /\ dispatches'[k] # dispatches[k]
                     => /\ returning' = returning
                        /\ postProcessors' = postProcessors
                        /\ DOMAIN pendingAgentLLMInteractions'
                               \subseteq DOMAIN pendingAgentLLMInteractions]_vars

\* The dispatch of the only delegation has gone through and its record waits,
\* unsettled, for the agent
DirectiveSentRecordWaits ==
    /\ DOMAIN dispatches = {1}
    /\ dispatches[1].state = "fulfilled"
    /\ Outstanding(1)
    /\ promises[1] = <<>>
    /\ DOMAIN pendingAgentLLMInteractions = {IdOf(1)}

----------------------------------------------------------------------------
\* The tool names for which the chain of the callback branch has a branch
ChainToolNames ==
    {"parse_prd", "expand_task", "analyze_project_complexity", "update_task", "add_task",
     "update_subtask", "update", "research"}

\* A resolver was called with reject in this step
RejectCalled ==
    \E k \in DOMAIN promises :
        /\ promises'[k] # promises[k]
        /\ promises'[k][Len(promises'[k])].fn = "reject"

\* C36 (post-processor dispatch guard): a post-processor is started only by
\* the invocation that handles a success callback for a record that is in the
\* registry, whose payload is non-empty, whose project root is resolved and
\* whose original tool name (or, for the bulk update, originalCommand
\* update-tasks) is one of the chain; one callback starts at most one; and no
\* post-processor is started by a step that rejects a record (an error callback
\* or a failed dispatch), that refuses an unknown id or that handles a dispatch.
PostProcessorGuard ==
    [][/\ postProcessors' # postProcessors
           => \/ /\ Len(postProcessors') = Len(postProcessors)
                 /\ \A p \in DOMAIN postProcessors :
                        postProcessors'[p] = [postProcessors[p] EXCEPT !.state = "settled"]
                        \/ postProcessors'[p] = postProcessors[p]
              \/ /\ Len(postProcessors') = Len(postProcessors) + 1
                 /\ SubSeq(postProcessors', 1, Len(postProcessors)) = postProcessors
                 /\ InvocationStep
                 /\ LET started == postProcessors'[Len(postProcessors')]
                        i == started.interactionId
                    IN  /\ MapHas(pendingAgentLLMInteractions, i)
                        /\ ~MapHas(pendingAgentLLMInteractions', i)
                        /\ returning' = AgentAck(i)
                        /\ LET record == pendingAgentLLMInteractions[i]
                               settled == promises'[record.promise]
                           IN  /\ started.promise = record.promise
                               /\ Len(settled) = Len(promises[record.promise]) + 1
                               /\ settled[Len(settled)].fn = "resolve"
                               /\ Truthy(settled[Len(settled)].value.mainResult)
                               /\ ProjectRootOf(record.originalToolArgs, record.session) # ""
                               /\ \/ record.originalToolName \in ChainToolNames
                                  \/ record.delegatedCallDetails.originalCommand = "update-tasks"
       /\ RejectCalled => postProcessors' = postProcessors
       /\ (\E i \in Ids : InvocationStep /\ returning' = UnknownInteraction(i))
              => postProcessors' = postProcessors
       /\ dispatches' # dispatches => postProcessors' = postProcessors]_vars

\* Savers were started for a record with a project root and not for the others:
\* the agent has answered with data and been acknowledged, and the saver of an
\* update by id is running
UpdateTaskSaverStarted ==
    /\ returning = AgentAck(1)
    /\ Len(postProcessors) = 1
    /\ postProcessors[1].saver = "saveUpdatedTaskFromAgent"
    /\ postProcessors[1].state = "running"
    /\ promises[1][1].fn = "resolve"
    /\ dispatches[1].state = "inflight"

----------------------------------------------------------------------------
\* Tool results that carry the pending-interaction resource without being a
\* delegation signal, each with a caller whose tool may return it: the text
\* does not parse, the flag is not true, the details are missing, or the
\* details are of another type
MalformedSentinels ==
    { <<caller, toolResult>> :
        caller \in { c \in Callers : c.delegates = Undefined },
        toolResult \in { EmbeddedResource(PendingInteractionUri, BadJsonText),
                         EmbeddedResource(PendingInteractionUri,
                                          JsonText([isAgentLLMPendingInteraction |-> FALSE,
                                                    details |-> Undefined])),
                         EmbeddedResource(PendingInteractionUri,
                                          JsonText([isAgentLLMPendingInteraction |-> TRUE,
                                                    details |-> Undefined])) } }
    \cup { <<caller, PendingInteractionResource(
                         [type |-> "other", interactionId |-> 1,
                          delegatedCallDetails |-> caller.delegates])>> :
             caller \in { c \in Callers : c.delegates # Undefined } }

\* C37 (malformed sentinel resource): a tool result that carries the
\* agent-llm://pending-interaction resource but whose text does not parse, lacks
\* the flag or the details, or whose details are not of type agent_llm, is
\* returned to the caller as it is; no record is inserted, no dispatch is
\* started, and no resolver or saver is touched.
MalformedSentinelPassThrough ==
    [][\A cr \in MalformedSentinels :
          (InvocationStep /\ InvokeTool(cr[1], cr[2]))
              => /\ returning' = cr[2]
                 /\ UNCHANGED <<pendingAgentLLMInteractions, promises, dispatches,
                                postProcessors>>]_vars

\* A resource whose text does not parse is being returned while the record of
\* a delegation is outstanding, and nothing was registered for it
UnparsableSentinelReturned ==
    /\ returning = EmbeddedResource(PendingInteractionUri, BadJsonText)
    /\ Cardinality(DOMAIN pendingAgentLLMInteractions) = 1
    /\ Len(dispatches) = 1

----------------------------------------------------------------------------
\* No two elements of the list have the same id
UniqueIds(list) ==
    \A i \in DOMAIN list, j \in DOMAIN list : list[i].id = list[j].id => i = j

\* C38 (subtask ids stay unique): whatever expansions of a parent were
\* delegated and in whatever order their callbacks are saved, two of them
\* outstanding at once included, and whatever the agent's payload, a successful
\* saveExpandedTaskData on a parent whose subtask ids are unique leaves them
\* unique.
SubtaskIdsStayUnique ==
    [][(saverCall'.saver = "saveExpandedTaskData" /\ saveResult'.success)
          => LET before == StoreTasks(tasksJson)
                 after == StoreTasks(tasksJson')
                 i == IndexOfId(before, saverCall'.id.parent)
             IN  UniqueIds(SubtasksOf(before[i])) => UniqueIds(SubtasksOf(after[i]))]_vars

----------------------------------------------------------------------------
\* The i-th task of `before` is one that the call of an update saver targets:
\* the task named by the id of the original arguments (for a subtask id, its
\* parent), or for the bulk update a task that the payload lists
TargetedTask(call, before, i) ==
    IF call.fn = "saveMultipleTasksFromAgent"
    THEN /\ HasField(call.args.output, "tasks")
         /\ \E j \in DOMAIN call.args.output.tasks :
                /\ HasField(call.args.output.tasks[j], "id")
                /\ call.args.output.tasks[j].id = before[i].id
    ELSE before[i].id = call.args.id.parent

\* C39 (update post-processors preserve the task set): whatever the agent's
\* payload, saveUpdatedTaskFromAgent, saveSubtaskDetailsFromAgent and
\* saveMultipleTasksFromAgent leave the store with the same number of tasks,
\* each with the id it had, in the same place, and change no task other than
\* those the payload or the original arguments target; for a subtask id, the
\* parent changes in that subtask only.
TaskSetPreserved ==
    [][(unitCall.fn = "" /\ unitCall'.fn # "")
          => LET before == StoreTasks(tasksJson)
                 after == StoreTasks(tasksJson')
                 call == unitCall'
             IN  /\ HasField(tasksJson', "tasks") = HasField(tasksJson, "tasks")
                 /\ Len(after) = Len(before)
                 /\ \A i \in DOMAIN before :
                        /\ after[i].id = before[i].id
                        /\ after[i] # before[i] => TargetedTask(call, before, i)
                        /\ (call.fn # "saveMultipleTasksFromAgent" /\ call.args.id.sub # 0
                            /\ after[i] # before[i])
                               => /\ OwnFields(after[i]) = OwnFields(before[i])
                                  /\ Len(after[i].subtasks) = Len(before[i].subtasks)
                                  /\ \A s \in DOMAIN before[i].subtasks :
                                         after[i].subtasks[s] # before[i].subtasks[s]
                                             => /\ before[i].subtasks[s].id = call.args.id.sub
                                                /\ after[i].subtasks[s].id = call.args.id.sub]_vars

\* A bulk update whose payload lists task 2 and a task 1 under another title
\* has rewritten both tasks of the store, which still holds tasks 1 and 2
BothListedTasksRewritten ==
    /\ unitCall.fn = "saveMultipleTasksFromAgent"
    /\ unitResult.result.success
    /\ Len(StoreTasks(tasksJson)) = 2
    /\ tasksJson.tasks[1].id = 1
    /\ tasksJson.tasks[2].id = 2
    /\ tasksJson.tasks[1].title = "new"
    /\ tasksJson.tasks[2].title = "new"

----------------------------------------------------------------------------
\* The places, in the store that expand-all read, of the tasks that are pending
\* or in progress and, unless force is set, have no subtasks
EligiblePlaces(data, force) ==
    { i \in DOMAIN data.tasks :
        /\ data.tasks[i].status \in {"pending", "in-progress"}
        /\ \/ force
           \/ ~HasField(data.tasks[i], "subtasks")
           \/ data.tasks[i].subtasks = <<>> }

====
